---- MODULE Spec2Model ----
(***************************************************************************)
(* A model of the winit back-end for Piston: WinitWindow (src/src/lib.rs)  *)
(* and VulkanoWindow (src/src/vulkano_window.rs).                          *)
(*                                                                         *)
(* Representation.                                                         *)
(*  - A 2D f64 value (PhysicalPosition, LogicalPosition, [f64; 2]) is a    *)
(*    pair <<x, y>> of integers.  Cursor positions and window sizes are    *)
(*    drawn from multiples of every scale factor of the model, so that     *)
(*    every f64 division the code performs is exact on them.               *)
(*  - Option<T> is None or the value itself; None of an Option<Input> or   *)
(*    Option<Event> is the record NoInput.                                 *)
(*  - A winit WindowEvent is a record with a field "type"; a piston Input  *)
(*    is a record with a field "kind".  Event::Input(i, None) is i.        *)
(*  - A handler is an operator from the state it reads to the state it     *)
(*    leaves: s.self is the window struct, s.os the state of the platform  *)
(*    window behind it, s.calls the platform calls it has issued.          *)
(***************************************************************************)
EXTENDS Integers, Sequences, FiniteSets, TLC

VARIABLES
    w,        \* the WinitWindow struct
    os,       \* the platform window of w: inner size, scale factor, cursor
    pc,       \* where the caller of w is: "new", "new_poll", "idle", "poll_event", ...
    last,     \* history: the last operation on w that completed, with its result
    frame,    \* history: the raw cursor moves of the current capture frame
    owed,     \* history: cursor displacement made by the user and not yet flushed,
              \* or NotKept in a specification that does not keep it
    trail,    \* history: the last two window events handled by w, each with the
              \* events it appended to the queue, when kept
    due,      \* history: the events appended to the queue of w and not yet
              \* returned to the caller, in the order they were appended, when kept
    twin,     \* a second WinitWindow, given the same events and calls as w, with
              \* the text events each of the two has returned, when kept
    v,        \* the VulkanoWindow struct
    vos,      \* the platform window of v, with the platform events not yet pumped
    vpc,      \* where the caller of v is: "idle", or "off" when v is not built
    vlast,    \* history: the last operation on v or step of its platform
    vmoves    \* history: the raw cursor moves of v since the last frame boundary

vars == <<w, os, pc, last, frame, owed, trail, due, twin, v, vos, vpc, vlast, vmoves>>
wvars == <<w, os, pc, last, frame, owed, trail, due, twin>>
vvars == <<v, vos, vpc, vlast, vmoves>>

---------------------------------------------------------------------------
(* Bounds of the model *)

\* The platform delivers an event, and the caller ends a frame, only while the
\* event queue holds fewer than MaxQueue events.
MaxQueue == 2
\* At most MaxFrameMoves raw cursor moves are delivered per capture frame.
MaxFrameMoves == 3
\* The displacement owed to the caller stays within MaxOwed on each axis.
MaxOwed == 4
\* The platform of VulkanoWindow has an event, and the caller ends a frame, only
\* while fewer than MaxPending events wait for the pump or in the queue.
MaxPending == 2
\* A WinitWindow with a twin returns an event only while each of the two has
\* returned fewer than MaxTold text events.
MaxTold == 2

---------------------------------------------------------------------------
(* Values *)

None == "None"
NoInput == [kind |-> "None"]

Zero2 == <<0, 0>>
Add2(a, b) == <<a[1] + b[1], a[2] + b[2]>>
Sub2(a, b) == <<a[1] - b[1], a[2] - b[2]>>
InBox(a, n) == /\ -n <= a[1] /\ a[1] <= n /\ -n <= a[2] /\ a[2] <= n

\* winit::dpi::PhysicalPosition::to_logical: division by the scale factor.
to_logical(position, scale_factor) ==
    <<position[1] \div scale_factor, position[2] \div scale_factor>>

\* The center the handlers compute: inner_size, each coordinate halved.
center_of(inner_size) == <<inner_size[1] \div 2, inner_size[2] \div 2>>

Scales == {1, 2}
Sizes == {<<4, 4>>, <<8, 4>>}
Positions == {<<0, 0>>, <<2, 2>>, <<4, 2>>}

\* piston inputs
Button(state, device, button) ==
    [kind |-> "Button", state |-> state, device |-> device, button |-> button]
Text(s) == [kind |-> "Text", text |-> s]
Move(motion, xy) == [kind |-> "Move", motion |-> motion, xy |-> xy]
Resize(size) == [kind |-> "Resize", window_size |-> size, draw_size |-> size]
Focus(focused) == [kind |-> "Focus", focused |-> focused]
Cursor(inside) == [kind |-> "Cursor", inside |-> inside]
FileDrag(what, path) == [kind |-> "FileDrag", what |-> what, path |-> path]
Close == [kind |-> "Close"]
Idle == [kind |-> "Idle", dt |-> 0]

\* winit window events
CursorMoved(position) == [type |-> "CursorMoved", position |-> position]
KeyboardInput(logical_key, state, text, repeat) ==
    [type |-> "KeyboardInput", logical_key |-> logical_key, state |-> state,
     text |-> text, repeat |-> repeat]
MouseInput(state, button) == [type |-> "MouseInput", state |-> state, button |-> button]
Resized(size) == [type |-> "Resized", size |-> size]
Focused(focused) == [type |-> "Focused", focused |-> focused]
Plain(type) == [type |-> type]
ScaleFactorChanged(scale_factor) ==
    [type |-> "ScaleFactorChanged", scale_factor |-> scale_factor]

Named(k) == <<"Named", k>>
Character(c) == <<"Character", c>>

---------------------------------------------------------------------------
(* The event mapper of src/src/lib.rs *)

\* The grave accent character (U+0060), which has no string literal here.
Grave == "grave"

\* The shifted/unshifted pairs of map_key: <<unshifted, shifted, key of the
\* unshifted character, key of the shifted character under None>>.
ShiftTable ==
    { <<"0", ")", "D0", "RightParen">>,
      <<"1", "!", "D1", "NumPadExclam">>,
      <<"2", "@", "D2", "At">>,
      <<"3", "#", "D3", "Hash">>,
      <<"4", "$", "D4", "Dollar">>,
      <<"5", "%", "D5", "Percent">>,
      <<"6", "^", "D6", "Caret">>,
      <<"7", "&", "D7", "Ampersand">>,
      <<"8", "*", "D8", "Asterisk">>,
      <<"9", "(", "D9", "LeftParen">>,
      <<"'", "\"", "Quote", "Quotedbl">>,
      <<";", ":", "Semicolon", "Colon">>,
      <<"[", "{", "LeftBracket", "NumPadLeftBrace">>,
      <<"]", "}", "RightBracket", "NumPadRightBrace">>,
      <<"\\", "|", "Backslash", "NumPadVerticalBar">>,
      <<",", "<", "Comma", "Less">>,
      <<".", ">", "Period", "Greater">>,
      <<"/", "?", "Slash", "Question">>,
      <<Grave, "~", "Backquote", "Unknown">> }

\* The letters of map_key: <<lower, upper, key>>.
LetterTable ==
    { <<"a", "A", "A">>, <<"b", "B", "B">>, <<"c", "C", "C">>, <<"d", "D", "D">>,
      <<"e", "E", "E">>, <<"f", "F", "F">>, <<"g", "G", "G">>, <<"h", "H", "H">>,
      <<"i", "I", "I">>, <<"j", "J", "J">>, <<"k", "K", "K">>, <<"l", "L", "L">>,
      <<"m", "M", "M">>, <<"n", "N", "N">>, <<"o", "O", "O">>, <<"p", "P", "P">>,
      <<"q", "Q", "Q">>, <<"r", "R", "R">>, <<"s", "S", "S">>, <<"t", "T", "T">>,
      <<"u", "U", "U">>, <<"v", "V", "V">>, <<"w", "W", "W">>, <<"x", "X", "X">>,
      <<"y", "Y", "Y">>, <<"z", "Z", "Z">> }

\* The named keys of map_key: <<winit NamedKey, piston Key>>.
NamedTable ==
    { <<"Escape", "Escape">>,
      <<"F1", "F1">>, <<"F2", "F2">>, <<"F3", "F3">>, <<"F4", "F4">>, <<"F5", "F5">>,
      <<"F6", "F6">>, <<"F7", "F7">>, <<"F8", "F8">>, <<"F9", "F9">>, <<"F10", "F10">>,
      <<"F11", "F11">>, <<"F12", "F12">>, <<"F13", "F13">>, <<"F14", "F14">>,
      <<"F15", "F15">>,
      <<"Delete", "Delete">>,
      <<"ArrowLeft", "Left">>, <<"ArrowUp", "Up">>, <<"ArrowRight", "Right">>,
      <<"ArrowDown", "Down">>,
      <<"Backspace", "Backspace">>, <<"Enter", "Return">>, <<"Space", "Space">>,
      <<"Alt", "LAlt">>, <<"AltGraph", "RAlt">>, <<"Control", "LCtrl">>,
      <<"Super", "Menu">>, <<"Shift", "LShift">>,
      <<"Tab", "Tab">> }

\* map_key with every character mapped as under KeyboardIgnoreModifiers::None.
map_key_keeps_modifiers(logical_key, kim) ==
    LET c == logical_key[2] IN
    IF logical_key[1] = "Character" THEN
        IF \E t \in ShiftTable : c = t[1] THEN
            (CHOOSE t \in ShiftTable : c = t[1])[3]
        ELSE IF \E t \in ShiftTable : c = t[2] THEN
            (CHOOSE t \in ShiftTable : c = t[2])[4]
        ELSE IF \E t \in LetterTable : c = t[1] \/ c = t[2] THEN
            (CHOOSE t \in LetterTable : c = t[1] \/ c = t[2])[3]
        ELSE "Unknown"
    ELSE IF logical_key[1] = "Named" /\ \E t \in NamedTable : c = t[1] THEN
        (CHOOSE t \in NamedTable : c = t[1])[2]
    ELSE "Unknown"

\* map_key: the piston Key of a winit logical key under the setting kim.
map_key(logical_key, kim) ==
    LET c == logical_key[2] IN
    IF logical_key[1] = "Character" THEN
        IF \E t \in ShiftTable : c = t[1] THEN
            (CHOOSE t \in ShiftTable : c = t[1])[3]
        ELSE IF \E t \in ShiftTable : c = t[2] THEN
            LET t == CHOOSE t \in ShiftTable : c = t[2]
            IN IF kim = "AbcKeyCode" THEN t[3] ELSE t[4]
        ELSE IF \E t \in LetterTable : c = t[1] \/ c = t[2] THEN
            (CHOOSE t \in LetterTable : c = t[1] \/ c = t[2])[3]
        ELSE "Unknown"
    ELSE IF logical_key[1] = "Named" /\ \E t \in NamedTable : c = t[1] THEN
        (CHOOSE t \in NamedTable : c = t[1])[2]
    ELSE "Unknown"

\* map_mouse with every other button taken for the left one.
map_mouse_defaults_left(mouse_button) ==
    CASE mouse_button = <<"Right">> -> "Right"
      [] mouse_button = <<"Middle">> -> "Middle"
      [] mouse_button = <<"Other", 0>> -> "X1"
      [] mouse_button = <<"Other", 1>> -> "X2"
      [] mouse_button = <<"Other", 2>> -> "Button6"
      [] mouse_button = <<"Other", 3>> -> "Button7"
      [] mouse_button = <<"Other", 4>> -> "Button8"
      [] OTHER -> "Left"

\* map_mouse: the piston MouseButton of a winit mouse button.
map_mouse(mouse_button) ==
    CASE mouse_button = <<"Left">> -> "Left"
      [] mouse_button = <<"Right">> -> "Right"
      [] mouse_button = <<"Middle">> -> "Middle"
      [] mouse_button = <<"Other", 0>> -> "X1"
      [] mouse_button = <<"Other", 1>> -> "X2"
      [] mouse_button = <<"Other", 2>> -> "Button6"
      [] mouse_button = <<"Other", 3>> -> "Button7"
      [] mouse_button = <<"Other", 4>> -> "Button8"
      [] OTHER -> "Unknown"

\* The result of a mapper: the Option<Input> it returns and the values it
\* leaves in its two &mut parameters.
Mapped(ret, unknown, last_key_pressed) ==
    [ret |-> ret, unknown |-> unknown, last_key_pressed |-> last_key_pressed]

\* map_keyboard_input without the filter of repeated presses.
map_keyboard_input_unfiltered(input, kim, unknown, last_key_pressed) ==
    LET key == map_key(input.logical_key, kim) IN
    IF input.state = "Pressed"
    THEN Mapped(Button("Press", "Keyboard", key), unknown, key)
    ELSE Mapped(Button("Release", "Keyboard", key), unknown,
                IF last_key_pressed # None /\ last_key_pressed = key
                THEN None ELSE last_key_pressed)

\* map_keyboard_input with every release clearing last_key_pressed.
map_keyboard_input_release_clears(input, kim, unknown, last_key_pressed) ==
    LET key == map_key(input.logical_key, kim) IN
    IF input.state = "Pressed" THEN
        IF last_key_pressed # None /\ last_key_pressed = key
        THEN Mapped(NoInput, TRUE, last_key_pressed)
        ELSE Mapped(Button("Press", "Keyboard", key), unknown, key)
    ELSE
        Mapped(Button("Release", "Keyboard", key), unknown, None)

\* map_keyboard_input: the button event of a key event, with the filter of
\* repeated presses.
map_keyboard_input(input, kim, unknown, last_key_pressed) ==
    LET key == map_key(input.logical_key, kim) IN
    IF input.state = "Pressed" THEN
        IF last_key_pressed # None /\ last_key_pressed = key
        THEN Mapped(NoInput, TRUE, last_key_pressed)
        ELSE Mapped(Button("Press", "Keyboard", key), unknown, key)
    ELSE
        Mapped(Button("Release", "Keyboard", key), unknown,
               IF last_key_pressed # None /\ last_key_pressed = key
               THEN None ELSE last_key_pressed)

\* map_window_event with every event reported as a gain of focus.
map_window_event_all_focus(window_event, scale_factor, kim, unknown, last_key_pressed) ==
    Mapped(Focus(TRUE), unknown, last_key_pressed)

\* map_window_event: the piston Input of a winit WindowEvent, if any.
map_window_event(window_event, scale_factor, kim, unknown, last_key_pressed) ==
    LET t == window_event.type
        plain(ret) == Mapped(ret, unknown, last_key_pressed)
    IN
    CASE t = "DroppedFile" -> plain(FileDrag("Drop", window_event.path))
      [] t = "HoveredFile" -> plain(FileDrag("Hover", window_event.path))
      [] t = "HoveredFileCancelled" -> plain(FileDrag("Cancel", None))
      [] t = "Resized" -> plain(Resize(window_event.size))
      [] t = "Moved" -> plain(NoInput)
      [] t = "CloseRequested" -> plain(Close)
      [] t = "Destroyed" -> plain(Close)
      [] t = "Focused" -> plain(Focus(window_event.focused))
      [] t = "KeyboardInput" ->
            map_keyboard_input(window_event, kim, unknown, last_key_pressed)
      [] t = "ModifiersChanged" -> plain(NoInput)
      [] t = "CursorMoved" ->
            plain(Move("MouseCursor", to_logical(window_event.position, scale_factor)))
      [] t = "CursorEntered" -> plain(Cursor(TRUE))
      [] t = "CursorLeft" -> plain(Cursor(FALSE))
      [] t = "MouseWheel" ->
            IF window_event.delta[1] = "PixelDelta"
            THEN plain(Move("MouseScroll", to_logical(window_event.delta[2], scale_factor)))
            ELSE plain(Move("MouseScroll", window_event.delta[2]))
      [] t = "MouseInput" ->
            plain(Button(IF window_event.state = "Pressed" THEN "Press" ELSE "Release",
                         "Mouse", map_mouse(window_event.button)))
      [] t \in {"TouchpadPressure", "PinchGesture", "RotationGesture", "PanGesture",
                "DoubleTapGesture", "AxisMotion", "Touch", "ScaleFactorChanged",
                "ActivationTokenDone", "ThemeChanged", "Ime", "Occluded",
                "RedrawRequested"} -> plain(NoInput)

---------------------------------------------------------------------------
(* WinitWindow, src/src/lib.rs *)

\* The state a handler works on, and the same after one more platform call.
State(self, o, calls) == [self |-> self, os |-> o, calls |-> calls]
call(s, name) == [s EXCEPT !.calls = Append(@, name)]

\* self.events.push_back(Event::Input(input, None))
push_back(s, input) == [s EXCEPT !.self.events = Append(@, input)]

\* The struct literal of WinitWindow::new.
new(settings) ==
    [event_loop |-> "Some",
     keyboard_ignore_modifiers |-> "None",
     window |-> None,
     should_close |-> FALSE,
     automatic_close |-> settings.automatic_close,
     events |-> <<>>,
     last_cursor |-> Zero2,
     cursor_accumulator |-> Zero2,
     last_key_pressed |-> None,
     capture_cursor |-> FALSE,
     exit_on_esc |-> settings.exit_on_esc]

\* get_window_ref with a default in place of the window that is absent.
get_window_ref_or_default(self) ==
    IF self.window = None THEN "Default" ELSE self.window

\* WinitWindow::get_window_ref: self.window.as_ref().unwrap(), which panics
\* when the window is absent.
get_window_ref(self) ==
    IF self.window = None THEN "panic" ELSE self.window

\* Window::set_should_close
set_should_close(s, value) == [s EXCEPT !.self.should_close = value]

\* Window::should_close
should_close(self) == self.should_close

\* The result of handle_event: the state left, the Option<Input> returned and
\* the value left in unknown.
Handled(s, ret, unknown) == [s |-> s, ret |-> ret, unknown |-> unknown]

\* keyboard_input without the test for the Escape key.
keyboard_input_passes_escape(s, event, unknown) ==
    LET self == s.self
        usual == map_window_event(event, s.os.scale_factor,
                                  self.keyboard_ignore_modifiers,
                                  unknown, self.last_key_pressed)
    IN
    IF event.text # None THEN
        IF ~event.repeat THEN
            LET s1 == [s EXCEPT !.self.last_key_pressed = usual.last_key_pressed]
            IN Handled(IF usual.ret # NoInput THEN push_back(s1, usual.ret) ELSE s1,
                       Text(event.text), usual.unknown)
        ELSE Handled(s, Text(event.text), unknown)
    ELSE NoInput

\* WinitWindow::handle_event, the arm of KeyboardInput: Escape closes the
\* window when exit_on_esc is set; a key event with text queues its button
\* event, unless the platform flags a repeat, and returns the text event.
\* The result is NoInput when the event falls through to the usual mapping.
keyboard_input(s, event, unknown) ==
    LET self == s.self
        usual == map_window_event(event, s.os.scale_factor,
                                  self.keyboard_ignore_modifiers,
                                  unknown, self.last_key_pressed)
    IN
    IF self.exit_on_esc /\ event.logical_key = Named("Escape")
    THEN Handled(set_should_close(s, TRUE), NoInput, unknown)
    ELSE IF event.text # None THEN
        IF ~event.repeat THEN
            LET s1 == [s EXCEPT !.self.last_key_pressed = usual.last_key_pressed]
            IN Handled(IF usual.ret # NoInput THEN push_back(s1, usual.ret) ELSE s1,
                       Text(event.text), usual.unknown)
        ELSE Handled(s, Text(event.text), unknown)
    ELSE NoInput

\* cursor_moved with the move assigned to the accumulator, not added to it.
cursor_moved_assigns(s, position, center) ==
    LET prev_last_cursor == s.self.last_cursor
        s1 == [s EXCEPT !.self.last_cursor = to_logical(position, s.os.scale_factor)]
    IN IF position = center THEN s1
       ELSE [s1 EXCEPT !.self.cursor_accumulator =
                <<position[1] - prev_last_cursor[1],
                  position[2] - prev_last_cursor[2]>>]

\* cursor_moved without the test for the center of the window.
cursor_moved_counts_center(s, position, center) ==
    LET prev_last_cursor == s.self.last_cursor
        s1 == [s EXCEPT !.self.last_cursor = to_logical(position, s.os.scale_factor)]
    IN [s1 EXCEPT !.self.cursor_accumulator =
           <<@[1] + (position[1] - prev_last_cursor[1]),
             @[2] + (position[2] - prev_last_cursor[2])>>]

\* cursor_moved with a move at the center ignored entirely.
cursor_moved_skips_center(s, position, center) ==
    LET prev_last_cursor == s.self.last_cursor
        s1 == [s EXCEPT !.self.last_cursor = to_logical(position, s.os.scale_factor)]
    IN IF position = center THEN s
       ELSE [s1 EXCEPT !.self.cursor_accumulator =
                <<@[1] + (position[1] - prev_last_cursor[1]),
                  @[2] + (position[2] - prev_last_cursor[2])>>]

\* WinitWindow::handle_event, the arm of CursorMoved while the cursor is
\* captured: the move is added to the accumulator, unless it is at the center.
cursor_moved(s, position, center) ==
    LET prev_last_cursor == s.self.last_cursor
        s1 == [s EXCEPT !.self.last_cursor = to_logical(position, s.os.scale_factor)]
    IN IF position = center THEN s1
       ELSE [s1 EXCEPT !.self.cursor_accumulator =
                <<@[1] + (position[1] - prev_last_cursor[1]),
                  @[2] + (position[2] - prev_last_cursor[2])>>]

\* handle_event with a captured cursor move passed to the usual mapping.
handle_event_forwards_moves(s, event, center, unknown) ==
    LET self == s.self
        usual == map_window_event(event, s.os.scale_factor,
                                  self.keyboard_ignore_modifiers,
                                  unknown, self.last_key_pressed)
        key == IF event.type = "KeyboardInput"
               THEN keyboard_input(s, event, unknown) ELSE NoInput
    IN
    IF key # NoInput THEN key
    ELSE Handled([s EXCEPT !.self.last_key_pressed = usual.last_key_pressed],
                 usual.ret, usual.unknown)

\* WinitWindow::handle_event: the events handled inside the window, and the
\* usual events, passed to map_window_event.
handle_event(s, event, center, unknown) ==
    LET self == s.self
        usual == map_window_event(event, s.os.scale_factor,
                                  self.keyboard_ignore_modifiers,
                                  unknown, self.last_key_pressed)
        key == IF event.type = "KeyboardInput"
               THEN keyboard_input(s, event, unknown) ELSE NoInput
    IN
    IF key # NoInput THEN key
    ELSE IF event.type = "CursorMoved" /\ self.capture_cursor
    THEN Handled(cursor_moved(s, event.position, center), NoInput, unknown)
    ELSE Handled([s EXCEPT !.self.last_key_pressed = usual.last_key_pressed],
                 usual.ret, usual.unknown)

\* swap_buffers that keeps the accumulator after it is flushed.
swap_buffers_keeps_accumulator(s) ==
    IF s.self.capture_cursor THEN
        LET center == center_of(s.os.inner_size)
            s1 == [call(s, "set_cursor_position") EXCEPT !.os.cursor = center]
        IN push_back(s1, Move("MouseRelative", s.self.cursor_accumulator))
    ELSE s

\* size without the division by the scale factor.
size_in_pixels(s) == s.os.inner_size

\* Window::size (size is a bound name here): the inner size divided by the scale factor, each coordinate
\* cut to a u32.
Window_size(s) ==
    LET inner_size == s.os.inner_size
        hidpi == s.os.scale_factor
    IN <<inner_size[1] \div hidpi, inner_size[2] \div hidpi>>

\* Window::draw_size: the inner size.
draw_size(s) == s.os.inner_size

\* The platform honours a request for a logical inner size: the inner size
\* of the window, in physical pixels, is the logical size times the scale
\* factor.
honoured(o, logical) ==
    [o EXCEPT !.inner_size = <<logical[1] * o.scale_factor,
                               logical[2] * o.scale_factor>>]

\* AdvancedWindow::set_size, of WinitWindow and of VulkanoWindow: the size
\* times the scale factor is requested as a LogicalSize.
set_size(s, size) ==
    LET hidpi == s.os.scale_factor
        logical == <<size[1] * hidpi, size[2] * hidpi>>
        s1 == call(s, "request_inner_size")
    IN [s1 EXCEPT !.os = honoured(@, logical)]

\* Window::swap_buffers: the end of a frame, where the accumulator is flushed.
swap_buffers(s) ==
    IF s.self.capture_cursor THEN
        LET center == center_of(s.os.inner_size)
            s1 == [call(s, "set_cursor_position") EXCEPT !.os.cursor = center]
            s2 == push_back(s1, Move("MouseRelative", s.self.cursor_accumulator))
        IN [s2 EXCEPT !.self.cursor_accumulator = Zero2]
    ELSE s

\* pump_enter without the WakeUp event.
pump_enter_without_wakeup(s) == [s EXCEPT !.self.event_loop = None]

\* The head of poll_event, wait_event and wait_event_timeout: the event loop
\* is taken out of its slot, woken up and pumped.
pump_enter(s) ==
    [call(s, "send_event(WakeUp)") EXCEPT !.self.event_loop = None,
                                          !.os.wake = "sent"]

\* The tail of poll_event without the test for a close event.
poll_event_return_keeps_flag(s) ==
    LET s1 == [s EXCEPT !.self.event_loop = "Some"]
        event == IF s1.self.events = <<>> THEN NoInput ELSE Head(s1.self.events)
        s2 == IF event = NoInput THEN s1
              ELSE [s1 EXCEPT !.self.events = Tail(@)]
    IN [s |-> s2, ret |-> event]

\* The tail of poll_event: the event loop is put back,
\* the first event of the queue is popped and a close event sets should_close.
\* The result holds the state left and the Option<Event> returned.
poll_event_return(s) ==
    LET s1 == [s EXCEPT !.self.event_loop = "Some"]
        event == IF s1.self.events = <<>> THEN NoInput ELSE Head(s1.self.events)
        s2 == IF event = NoInput THEN s1
              ELSE [s1 EXCEPT !.self.events = Tail(@)]
    IN [s |-> IF event = Close THEN set_should_close(s2, TRUE) ELSE s2,
        ret |-> event]

\* The tail of wait_event_timeout: as that of poll_event.
wait_event_timeout_return(s) ==
    LET s1 == [s EXCEPT !.self.event_loop = "Some"]
        event == IF s1.self.events = <<>> THEN NoInput ELSE Head(s1.self.events)
        s2 == IF event = NoInput THEN s1
              ELSE [s1 EXCEPT !.self.events = Tail(@)]
    IN [s |-> IF event = Close THEN set_should_close(s2, TRUE) ELSE s2,
        ret |-> event]

\* wait_event returning what poll_event returns.
wait_event_return_as_poll(s) == poll_event_return(s)

\* The tail of wait_event: as that of poll_event, but an idle event is
\* returned when the queue is empty.
wait_event_return(s) ==
    LET s1 == [s EXCEPT !.self.event_loop = "Some"]
        event == IF s1.self.events = <<>> THEN NoInput ELSE Head(s1.self.events)
        s2 == IF event = NoInput THEN s1
              ELSE [s1 EXCEPT !.self.events = Tail(@)]
    IN [s |-> IF event = Close THEN set_should_close(s2, TRUE) ELSE s2,
        ret |-> IF event = NoInput THEN Idle ELSE event]

\* poll_event, wait_event and wait_event_timeout called with an empty slot,
\* but waking the event loop up as a call that owns it does.
unpumped_call_wakes(s, op) ==
    LET s1 == [call(s, "send_event(WakeUp)") EXCEPT !.os.wake = "sent"]
        event == IF s1.self.events = <<>> THEN NoInput ELSE Head(s1.self.events)
        s2 == IF event = NoInput THEN s1
              ELSE [s1 EXCEPT !.self.events = Tail(@)]
    IN [s |-> IF event = Close THEN set_should_close(s2, TRUE) ELSE s2,
        ret |-> IF op = "wait_event" /\ event = NoInput THEN Idle ELSE event]

\* poll_event, wait_event and wait_event_timeout (op) called while
\* self.event_loop is None: the `if let Some` block is skipped, the first
\* event of the queue is popped and a close event sets should_close.
unpumped_call(s, op) ==
    LET event == IF s.self.events = <<>> THEN NoInput ELSE Head(s.self.events)
        s2 == IF event = NoInput THEN s
              ELSE [s EXCEPT !.self.events = Tail(@)]
    IN [s |-> IF event = Close THEN set_should_close(s2, TRUE) ELSE s2,
        ret |-> IF op = "wait_event" /\ event = NoInput THEN Idle ELSE event]

\* ApplicationHandler::resumed: the window is created.
resumed(s) == [call(s, "create_window") EXCEPT !.self.window = "Some"]

\* window_event closing on a close request whatever automatic_close is.
window_event_always_closes(s, event) ==
    IF event.type = "CloseRequested" THEN
        call([s EXCEPT !.self.should_close = TRUE], "exit")
    ELSE IF event.type = "RedrawRequested" THEN
        call(s, "request_redraw")
    ELSE
        LET center == center_of(s.os.inner_size)
            h == handle_event(s, event, center, FALSE)
        IN IF h.ret # NoInput /\ ~h.unknown THEN push_back(h.s, h.ret) ELSE h.s

\* ApplicationHandler::window_event
window_event(s, event) ==
    IF event.type = "CloseRequested" THEN
        IF s.self.automatic_close
        THEN call([s EXCEPT !.self.should_close = TRUE], "exit")
        ELSE s
    ELSE IF event.type = "RedrawRequested" THEN
        call(s, "request_redraw")
    ELSE
        LET center == center_of(s.os.inner_size)
            h == handle_event(s, event, center, FALSE)
        IN IF h.ret # NoInput /\ ~h.unknown THEN push_back(h.s, h.ret) ELSE h.s

\* AdvancedWindow::set_exit_on_esc
set_exit_on_esc(s, value) == [s EXCEPT !.self.exit_on_esc = value]

\* AdvancedWindow::set_automatic_close
set_automatic_close(s, value) == [s EXCEPT !.self.automatic_close = value]

\* set_capture_cursor without the early return.
set_capture_cursor_again(s, value) ==
    IF value THEN
        LET s1 == [s EXCEPT !.self.cursor_accumulator = Zero2]
            s2 == [call(s1, "set_cursor_grab(Locked)") EXCEPT !.os.cursor_grab = "Locked"]
            s3 == [call(s2, "set_cursor_visible(false)") EXCEPT !.os.cursor_visible = FALSE]
            center == center_of(s.os.inner_size)
        IN [s3 EXCEPT !.self.last_cursor = center, !.self.capture_cursor = value]
    ELSE
        LET s1 == [call(s, "set_cursor_grab(None)") EXCEPT !.os.cursor_grab = "None"]
            s2 == [call(s1, "set_cursor_visible(true)") EXCEPT !.os.cursor_visible = TRUE]
        IN [s2 EXCEPT !.self.capture_cursor = value]

\* set_capture_cursor with the accumulator left as it is.
set_capture_cursor_keeps_delta(s, value) ==
    IF value = s.self.capture_cursor THEN s
    ELSE IF value THEN
        LET s2 == [call(s, "set_cursor_grab(Locked)") EXCEPT !.os.cursor_grab = "Locked"]
            s3 == [call(s2, "set_cursor_visible(false)") EXCEPT !.os.cursor_visible = FALSE]
            center == center_of(s.os.inner_size)
        IN [s3 EXCEPT !.self.last_cursor = center, !.self.capture_cursor = value]
    ELSE
        LET s1 == [call(s, "set_cursor_grab(None)") EXCEPT !.os.cursor_grab = "None"]
            s2 == [call(s1, "set_cursor_visible(true)") EXCEPT !.os.cursor_visible = TRUE]
        IN [s2 EXCEPT !.self.capture_cursor = value]

\* AdvancedWindow::set_capture_cursor
set_capture_cursor(s, value) ==
    IF value = s.self.capture_cursor THEN s
    ELSE IF value THEN
        LET s1 == [s EXCEPT !.self.cursor_accumulator = Zero2]
            s2 == [call(s1, "set_cursor_grab(Locked)") EXCEPT !.os.cursor_grab = "Locked"]
            s3 == [call(s2, "set_cursor_visible(false)") EXCEPT !.os.cursor_visible = FALSE]
            center == center_of(s.os.inner_size)
        IN [s3 EXCEPT !.self.last_cursor = center, !.self.capture_cursor = value]
    ELSE
        LET s1 == [call(s, "set_cursor_grab(None)") EXCEPT !.os.cursor_grab = "None"]
            s2 == [call(s1, "set_cursor_visible(true)") EXCEPT !.os.cursor_visible = TRUE]
        IN [s2 EXCEPT !.self.capture_cursor = value]

\* The tail of new with the popped event put back behind the others.
new_return_pushes_back(s) ==
    LET r == poll_event_return(s)
    IN IF r.ret # NoInput THEN push_back(r.s, r.ret) ELSE r.s

\* The tail of WinitWindow::new: the event its poll_event popped is put back.
new_return(s) ==
    LET r == poll_event_return(s)
    IN IF r.ret # NoInput
       THEN [r.s EXCEPT !.self.events = <<r.ret>> \o @]
       ELSE r.s

---------------------------------------------------------------------------
(* The platform behind WinitWindow, and the history kept for the claims *)

\* What the platform window is like when it delivers event: the cursor is
\* where a CursorMoved event says, the inner size what a Resized event says.
platform(o, event) ==
    IF event.type = "CursorMoved" THEN [o EXCEPT !.cursor = event.position]
    ELSE IF event.type = "Resized" THEN [o EXCEPT !.inner_size = event.size]
    ELSE IF event.type = "ScaleFactorChanged"
         THEN [o EXCEPT !.scale_factor = event.scale_factor]
    ELSE o

NotKept == <<>>
NoFrame == [open |-> FALSE, base |-> Zero2, moves |-> <<>>]
NewFrame(base) == [open |-> TRUE, base |-> base, moves |-> <<>>]
Done(op, arg, ret, calls) ==
    [op |-> op, arg |-> arg, ret |-> ret, calls |-> calls, pre |-> w, pre_os |-> os]

\* The histories a specification keeps, or does not keep.
NoTrail ==
    [kept |-> FALSE, keys |-> <<>>, held |-> {}, button |-> NoInput, pressed |-> None]
NewTrail ==
    [kept |-> TRUE, keys |-> <<>>, held |-> {}, button |-> NoInput, pressed |-> None]
NoDue == [kept |-> FALSE, events |-> <<>>]
NewDue == [kept |-> TRUE, events |-> <<>>]
NoTwin == [kept |-> FALSE]
NewTwin(self) == [kept |-> TRUE, self |-> self, mine |-> <<>>, told |-> <<>>]
NoHistory == /\ trail = NoTrail /\ due = NoDue /\ twin = NoTwin

Final(queue) == queue[Len(queue)]

\* What a handler has appended to the queue that was `before`.
Out(before, after) == SubSeq(after, Len(before) + 1, Len(after))
\* What the trail keeps of the window before an event.
Before(self) ==
    [last_key_pressed |-> self.last_key_pressed,
     keyboard_ignore_modifiers |-> self.keyboard_ignore_modifiers,
     exit_on_esc |-> self.exit_on_esc]
LastTwo(seq) == IF Len(seq) > 2 THEN Tail(seq) ELSE seq
\* The button events of the keyboard among the events a handler appended.
KeyButtons(out) ==
    SelectSeq(out, LAMBDA e : e.kind = "Button" /\ e.device = "Keyboard")

\* The trail after window_event has handled event and appended out to the
\* queue of the window that was self: the last two events, each with the
\* trail before it; the keys for which a press has been appended and no
\* release since; the last button event of the keyboard appended; the key
\* of the last press appended.
Heard(t, event, self, out) ==
    LET buttons == KeyButtons(out)
        entry == [event |-> event, pre |-> Before(self), out |-> out,
                  held |-> t.held, button |-> t.button]
    IN [kept |-> TRUE,
        keys |-> LastTwo(Append(t.keys, entry)),
        held |-> IF buttons = <<>> THEN t.held
                 ELSE IF Final(buttons).state = "Press"
                      THEN t.held \cup {Final(buttons).button}
                      ELSE t.held \ {Final(buttons).button},
        button |-> IF buttons = <<>> THEN t.button ELSE Final(buttons),
        pressed |-> IF buttons # <<>> /\ Final(buttons).state = "Press"
                    THEN Final(buttons).button
                    ELSE t.pressed]

Told(texts, ret) == IF ret.kind = "Text" THEN Append(texts, ret) ELSE texts

\* The event loop has called a handler: if no WakeUp event is pending, the
\* pump has had an event and may return.
dispatched(o) == [o EXCEPT !.wake = IF @ = "idle" THEN "handled" ELSE @]

\* The pump has returned: what it dispatched is behind it.
returned(o) == [o EXCEPT !.wake = "idle"]

Pumping == {"new_poll", "poll_event", "wait_event", "wait_event_timeout"}

\* A WinitWindow is built: the struct literal of new, before its poll_event.
InitWinit(Settings, InnerSizes, ScaleFactors) ==
    /\ \E settings \in Settings : w = new(settings)
    /\ \E size \in InnerSizes, scale \in ScaleFactors, cursor \in Positions :
          os = [inner_size |-> size, scale_factor |-> scale, cursor |-> cursor,
                cursor_grab |-> "None", cursor_visible |-> TRUE, wake |-> "idle"]
    /\ pc = "new"
    /\ last = Done("new", None, NoInput, <<>>)
    /\ frame = NoFrame

\* poll_event is entered, by new or by the caller: the pump starts.
PollEventEnter ==
    /\ pc \in {"new", "idle"}
    /\ w.event_loop = "Some"
    /\ LET s == pump_enter(State(w, os, <<>>))
       IN /\ w' = s.self
          /\ os' = s.os
          /\ last' = Done("pump_enter", None, NoInput, s.calls)
    /\ twin' = IF twin.kept
               THEN [twin EXCEPT !.self = pump_enter(State(@, os, <<>>)).self]
               ELSE twin
    /\ pc' = IF pc = "new" THEN "new_poll" ELSE "poll_event"
    /\ UNCHANGED <<frame, owed, trail, due, vvars>>

\* wait_event is entered.
WaitEventEnter ==
    /\ pc = "idle"
    /\ w.event_loop = "Some"
    /\ LET s == pump_enter(State(w, os, <<>>))
       IN /\ w' = s.self
          /\ os' = s.os
          /\ last' = Done("pump_enter", None, NoInput, s.calls)
    /\ twin' = IF twin.kept
               THEN [twin EXCEPT !.self = pump_enter(State(@, os, <<>>)).self]
               ELSE twin
    /\ pc' = "wait_event"
    /\ UNCHANGED <<frame, owed, trail, due, vvars>>

\* wait_event_timeout is entered.
WaitEventTimeoutEnter ==
    /\ pc = "idle"
    /\ w.event_loop = "Some"
    /\ LET s == pump_enter(State(w, os, <<>>))
       IN /\ w' = s.self
          /\ os' = s.os
          /\ last' = Done("pump_enter", None, NoInput, s.calls)
    /\ twin' = IF twin.kept
               THEN [twin EXCEPT !.self = pump_enter(State(@, os, <<>>)).self]
               ELSE twin
    /\ pc' = "wait_event_timeout"
    /\ UNCHANGED <<frame, owed, trail, due, vvars>>

\* The pump calls resumed: once, before any window event.
Resumed ==
    /\ pc \in Pumping
    /\ w.window = None
    /\ LET s == resumed(State(w, os, <<>>))
       IN /\ w' = s.self
          /\ os' = dispatched(s.os)
          /\ last' = Done("resumed", None, NoInput, s.calls)
    /\ twin' = IF twin.kept
               THEN [twin EXCEPT !.self = resumed(State(@, os, <<>>)).self]
               ELSE twin
    /\ UNCHANGED <<pc, frame, owed, trail, due, vvars>>

\* The pump takes the WakeUp event; WinitWindow has no handler for it
\* (ApplicationHandler::user_event is the default, which does nothing).
UserEvent ==
    /\ pc \in Pumping
    /\ os.wake = "sent"
    /\ os' = [os EXCEPT !.wake = "handled"]
    /\ UNCHANGED <<w, pc, last, frame, owed, trail, due, twin, vvars>>

\* The pump calls window_event with one of Events before the window is
\* created: window_event starts with get_window_ref, whose panic ends the
\* program.
WindowEventUnwrap(Events) ==
    /\ pc \in Pumping
    /\ w.window = None
    /\ \E event \in Events :
         IF get_window_ref(w) = "panic"
         THEN /\ pc' = "panicked"
              /\ last' = Done("window_event", event, NoInput, <<>>)
              /\ UNCHANGED <<w, os>>
         ELSE LET s == window_event(State(w, platform(os, event), <<>>), event)
              IN /\ w' = s.self
                 /\ os' = dispatched(s.os)
                 /\ last' = Done("window_event", event, NoInput, s.calls)
                 /\ pc' = pc
    /\ UNCHANGED <<frame, owed, trail, due, twin, vvars>>

\* The pump calls window_event with one of Events.
WindowEvent(Events) ==
    /\ pc \in Pumping
    /\ w.window = "Some"
    /\ \E event \in Events :
         LET o == platform(os, event)
             s == window_event(State(w, o, <<>>), event)
             move == event.type = "CursorMoved" /\ w.capture_cursor
         IN /\ Len(w.events) < MaxQueue
            /\ move => Len(frame.moves) < MaxFrameMoves
            /\ w' = s.self
            /\ os' = dispatched(s.os)
            /\ last' = Done("window_event", event, NoInput, s.calls)
            /\ frame' = IF move
                        THEN [frame EXCEPT !.moves =
                                 Append(@, [position |-> event.position,
                                            center |-> center_of(o.inner_size)])]
                        ELSE frame
            /\ owed' = IF move /\ owed # NotKept
                       THEN Add2(owed, Sub2(event.position, os.cursor))
                       ELSE owed
            /\ owed' # NotKept => InBox(owed', MaxOwed)
            /\ trail' = IF trail.kept
                        THEN Heard(trail, event, w, Out(w.events, s.self.events))
                        ELSE trail
            /\ due' = IF due.kept
                      THEN [due EXCEPT !.events = @ \o Out(w.events, s.self.events)]
                      ELSE due
            /\ twin' = IF twin.kept
                       THEN [twin EXCEPT !.self =
                                window_event(State(@, o, <<>>), event).self]
                       ELSE twin
            /\ twin.kept => Len(twin.self.events) < MaxQueue
    /\ UNCHANGED <<pc, vvars>>

\* poll_event returns to the caller.
PollEventReturn ==
    /\ pc = "poll_event"
    /\ os.wake # "sent"
    /\ LET r == poll_event_return(State(w, os, <<>>))
       IN /\ w' = r.s.self
          /\ os' = returned(r.s.os)
          /\ last' = Done("poll_event", None, r.ret, r.s.calls)
          /\ due' = IF due.kept /\ due.events # <<>>
                    THEN [due EXCEPT !.events = Tail(@)]
                    ELSE due
          /\ twin' = IF twin.kept
                     THEN LET t == poll_event_return(State(twin.self, os, <<>>))
                          IN [twin EXCEPT !.self = t.s.self,
                                          !.mine = Told(@, r.ret),
                                          !.told = Told(@, t.ret)]
                     ELSE twin
          /\ twin.kept => Len(twin.mine) < MaxTold /\ Len(twin.told) < MaxTold
    /\ pc' = "idle"
    /\ UNCHANGED <<frame, owed, trail, vvars>>

\* wait_event returns to the caller.
WaitEventReturn ==
    /\ pc = "wait_event"
    /\ os.wake = "handled"
    /\ LET r == wait_event_return(State(w, os, <<>>))
       IN /\ w' = r.s.self
          /\ os' = returned(r.s.os)
          /\ last' = Done("wait_event", None, r.ret, r.s.calls)
          /\ due' = IF due.kept /\ due.events # <<>>
                    THEN [due EXCEPT !.events = Tail(@)]
                    ELSE due
          /\ twin' = IF twin.kept
                     THEN LET t == wait_event_return(State(twin.self, os, <<>>))
                          IN [twin EXCEPT !.self = t.s.self,
                                          !.mine = Told(@, r.ret),
                                          !.told = Told(@, t.ret)]
                     ELSE twin
          /\ twin.kept => Len(twin.mine) < MaxTold /\ Len(twin.told) < MaxTold
    /\ pc' = "idle"
    /\ UNCHANGED <<frame, owed, trail, vvars>>

\* wait_event_timeout returns to the caller.
WaitEventTimeoutReturn ==
    /\ pc = "wait_event_timeout"
    /\ os.wake # "sent"
    /\ LET r == wait_event_timeout_return(State(w, os, <<>>))
       IN /\ w' = r.s.self
          /\ os' = returned(r.s.os)
          /\ last' = Done("wait_event_timeout", None, r.ret, r.s.calls)
          /\ due' = IF due.kept /\ due.events # <<>>
                    THEN [due EXCEPT !.events = Tail(@)]
                    ELSE due
          /\ twin' = IF twin.kept
                     THEN LET t == wait_event_timeout_return(State(twin.self, os, <<>>))
                          IN [twin EXCEPT !.self = t.s.self,
                                          !.mine = Told(@, r.ret),
                                          !.told = Told(@, t.ret)]
                     ELSE twin
          /\ twin.kept => Len(twin.mine) < MaxTold /\ Len(twin.told) < MaxTold
    /\ pc' = "idle"
    /\ UNCHANGED <<frame, owed, trail, vvars>>

\* new returns the window, which the platform has created by then.
NewReturn ==
    /\ pc = "new_poll"
    /\ w.window = "Some"
    /\ os.wake # "sent"
    /\ LET s == new_return(State(w, os, <<>>))
       IN /\ w' = s.self
          /\ os' = returned(s.os)
          /\ last' = Done("new", None, NoInput, s.calls)
    /\ twin' = IF twin.kept
               THEN [twin EXCEPT !.self = new_return(State(@, os, <<>>)).self]
               ELSE twin
    /\ pc' = "idle"
    /\ UNCHANGED <<frame, owed, trail, due, vvars>>

\* The caller ends a frame.
SwapBuffers ==
    /\ pc = "idle"
    /\ LET s == swap_buffers(State(w, os, <<>>))
       IN /\ w.capture_cursor => Len(w.events) < MaxQueue
          /\ w' = s.self
          /\ os' = s.os
          /\ last' = Done("swap_buffers", frame, NoInput, s.calls)
          /\ frame' = IF w.capture_cursor THEN NewFrame(s.self.last_cursor) ELSE frame
          /\ owed' = IF w.capture_cursor /\ owed # NotKept
                     THEN Sub2(owed, w.cursor_accumulator)
                     ELSE owed
          /\ due' = IF due.kept
                    THEN [due EXCEPT !.events = @ \o Out(w.events, s.self.events)]
                    ELSE due
    /\ UNCHANGED <<pc, trail, twin, vvars>>

\* The caller switches cursor capture on or off.
SetCaptureCursor ==
    /\ pc = "idle"
    /\ \E value \in BOOLEAN :
         LET s == set_capture_cursor(State(w, os, <<>>), value)
             changed == value # w.capture_cursor
         IN /\ w' = s.self
            /\ os' = s.os
            /\ last' = Done("set_capture_cursor", value, NoInput, s.calls)
            /\ frame' = IF ~changed THEN frame
                        ELSE IF value THEN NewFrame(s.self.last_cursor) ELSE NoFrame
            /\ owed' = IF changed /\ owed # NotKept THEN Zero2 ELSE owed
    /\ UNCHANGED <<pc, trail, due, twin, vvars>>

\* The caller sets one of the flags.
SetShouldClose ==
    /\ pc = "idle"
    /\ \E value \in BOOLEAN :
         LET s == set_should_close(State(w, os, <<>>), value)
         IN /\ w' = s.self
            /\ last' = Done("set_should_close", value, NoInput, s.calls)
    /\ UNCHANGED <<os, pc, frame, owed, trail, due, twin, vvars>>

SetExitOnEsc ==
    /\ pc = "idle"
    /\ \E value \in BOOLEAN :
         LET s == set_exit_on_esc(State(w, os, <<>>), value)
         IN /\ w' = s.self
            /\ last' = Done("set_exit_on_esc", value, NoInput, s.calls)
    /\ UNCHANGED <<os, pc, frame, owed, trail, due, twin, vvars>>

SetAutomaticClose ==
    /\ pc = "idle"
    /\ \E value \in BOOLEAN :
         LET s == set_automatic_close(State(w, os, <<>>), value)
         IN /\ w' = s.self
            /\ last' = Done("set_automatic_close", value, NoInput, s.calls)
    /\ UNCHANGED <<os, pc, frame, owed, trail, due, twin, vvars>>

\* The caller assigns the public field keyboard_ignore_modifiers; the caller
\* of the twin, where one is kept, assigns the same field of the twin.
SetKeyboardIgnoreModifiers ==
    /\ pc = "idle"
    /\ \E value \in {"None", "AbcKeyCode"} :
          /\ w' = [w EXCEPT !.keyboard_ignore_modifiers = value]
          /\ last' = Done("keyboard_ignore_modifiers", value, NoInput, <<>>)
    /\ \E value \in {"None", "AbcKeyCode"} :
          twin' = IF twin.kept
                  THEN [twin EXCEPT !.self.keyboard_ignore_modifiers = value]
                  ELSE twin
    /\ UNCHANGED <<os, pc, frame, owed, trail, due, vvars>>

\* The caller sets the size of the window, and the platform honours it.
SetSize(RequestSizes) ==
    /\ pc = "idle"
    /\ \E wh \in RequestSizes :
         LET s == set_size(State(w, os, <<>>), wh)
         IN /\ w' = s.self
            /\ os' = s.os
            /\ last' = Done("set_size", wh, NoInput, s.calls)
    /\ UNCHANGED <<pc, frame, owed, trail, due, twin, vvars>>

\* A Size returned to the caller, as the history keeps it.
SizeOf(wh) == [kind |-> "Size", size |-> wh]

\* The caller asks for the size of the window.
GetSize ==
    /\ pc = "idle"
    /\ last' = Done("size", None, SizeOf(Window_size(State(w, os, <<>>))), <<>>)
    /\ UNCHANGED <<w, os, pc, frame, owed, trail, due, twin, vvars>>

\* The caller asks for the size of the drawing surface.
GetDrawSize ==
    /\ pc = "idle"
    /\ last' = Done("draw_size", None, SizeOf(draw_size(State(w, os, <<>>))), <<>>)
    /\ UNCHANGED <<w, os, pc, frame, owed, trail, due, twin, vvars>>

---------------------------------------------------------------------------
(* VulkanoWindow, src/src/vulkano_window.rs *)

\* The window events of the winit version VulkanoWindow is written for.
WindowEventOf(event) == [type |-> "WindowEvent", event |-> event]
ReceivedCharacter(c) == [type |-> "ReceivedCharacter", c |-> c]
KeyboardInputOf(virtual_keycode, state) ==
    [type |-> "KeyboardInput",
     input |-> [virtual_keycode |-> virtual_keycode, state |-> state]]

\* The control characters handle_event filters from the text events.
Delete == "\\u{7f}"
Escape == "\\u{1b}"
Backspace == "\\u{8}"
ControlCharacters == {Delete, Escape, Backspace, "\\r", "\\n", "\\t"}

\* The keys of the lookup table of crate::map_key, one per virtual key code.
VulkanoKeys ==
    {t[3] : t \in ShiftTable} \cup {t[3] : t \in LetterTable} \cup {t[2] : t \in NamedTable}

\* crate::map_key as vulkano_window.rs imports it: the key of a virtual key
\* code by a fixed table, Unknown for a key code that is not in the table.
vulkano_map_key(input) ==
    IF input.virtual_keycode \in VulkanoKeys THEN input.virtual_keycode ELSE "Unknown"

\* crate::map_keyboard_input as vulkano_window.rs imports it: the button
\* event of a key event.
vulkano_map_keyboard_input(input) ==
    Button(IF input.state = "Pressed" THEN "Press" ELSE "Release",
           "Keyboard", vulkano_map_key(input))

\* crate::map_mouse_button as vulkano_window.rs imports it.
map_mouse_button(button) == map_mouse(button)

\* The struct literal of VulkanoWindow::new.
vulkano_new(settings) ==
    [should_close |-> FALSE,
     queued_events |-> <<>>,
     last_cursor |-> Zero2,
     cursor_accumulator |-> Zero2,
     capture_cursor |-> FALSE,
     exit_on_esc |-> settings.exit_on_esc]

\* self.queued_events.push_back(Event::Input(input, None))
vulkano_push_back(s, input) == [s EXCEPT !.self.queued_events = Append(@, input)]

\* VulkanoWindow::handle_event
vulkano_handle_event(s, event, center) ==
    IF event.type # "WindowEvent" THEN s
    ELSE
    LET ev == event.event
        t == ev.type
        self == s.self
    IN
    CASE t = "Resized" -> vulkano_push_back(s, Resize(ev.size))
      [] t = "CloseRequested" -> vulkano_push_back(s, Close)
      [] t = "ReceivedCharacter" ->
            IF ev.c \in ControlCharacters THEN s
            ELSE vulkano_push_back(s, Text(ev.c))
      [] t = "Focused" -> vulkano_push_back(s, Focus(ev.focused))
      [] t = "KeyboardInput" ->
            LET key == vulkano_map_key(ev.input) IN
            IF self.exit_on_esc /\ key = "Escape"
            THEN [s EXCEPT !.self.should_close = TRUE]
            ELSE vulkano_push_back(s, vulkano_map_keyboard_input(ev.input))
      [] t = "CursorMoved" ->
            IF self.capture_cursor THEN
                LET prev_last_cursor == self.last_cursor
                    position == ev.position
                    s1 == [s EXCEPT !.self.last_cursor =
                              to_logical(position, s.os.scale_factor)]
                IN IF position = center THEN s1
                   ELSE [s1 EXCEPT !.self.cursor_accumulator =
                            <<@[1] + (position[1] - prev_last_cursor[1]),
                              @[2] + (position[2] - prev_last_cursor[2])>>]
            ELSE vulkano_push_back(s, Move("MouseCursor", ev.position))
      [] t = "CursorEntered" -> vulkano_push_back(s, Cursor(TRUE))
      [] t = "CursorLeft" -> vulkano_push_back(s, Cursor(FALSE))
      [] t = "MouseWheel" -> vulkano_push_back(s, Move("MouseScroll", ev.delta[2]))
      [] t = "MouseInput" ->
            vulkano_push_back(s,
                Button(IF ev.state = "Pressed" THEN "Press" ELSE "Release",
                       "Mouse", map_mouse_button(ev.button)))
      [] OTHER -> s

\* for event in events.into_iter() { self.handle_event(event, center) }
RECURSIVE vulkano_handle_events(_, _, _)
vulkano_handle_events(s, events, center) ==
    IF events = <<>> THEN s
    ELSE vulkano_handle_events(vulkano_handle_event(s, Head(events), center),
                               Tail(events), center)

\* VulkanoWindow::poll_event: the events the platform holds are collected up
\* to the WakeUp event sent first, handled, and the first event of the queue
\* is popped.  The result holds the state left and the Option<Event> returned.
vulkano_poll_event(s) ==
    LET center == center_of(s.os.inner_size)
        events == s.os.pending
        s1 == [call(s, "send_event(WakeUp)") EXCEPT !.os.pending = <<>>]
        s2 == vulkano_handle_events(s1, events, center)
        event == IF s2.self.queued_events = <<>> THEN NoInput
                 ELSE Head(s2.self.queued_events)
        s3 == IF event = NoInput THEN s2
              ELSE [s2 EXCEPT !.self.queued_events = Tail(@)]
    IN [s |-> IF event = Close THEN [s3 EXCEPT !.self.should_close = TRUE] ELSE s3,
        ret |-> event]

\* VulkanoWindow::swap_buffers
vulkano_swap_buffers(s) ==
    IF s.self.capture_cursor THEN
        LET center == center_of(s.os.inner_size)
            s1 == [call(s, "set_cursor_position") EXCEPT !.os.cursor = center]
            s2 == vulkano_push_back(s1, Move("MouseRelative", s.self.cursor_accumulator))
        IN [s2 EXCEPT !.self.cursor_accumulator = Zero2]
    ELSE s

\* VulkanoWindow::set_capture_cursor
vulkano_set_capture_cursor(s, value) ==
    IF value = s.self.capture_cursor THEN s
    ELSE IF value THEN
        LET s1 == [call(s, "set_cursor_grab(true)") EXCEPT !.os.cursor_grab = "Locked"]
            s2 == [call(s1, "set_cursor_visible(false)") EXCEPT !.os.cursor_visible = FALSE]
            s3 == [s2 EXCEPT !.self.cursor_accumulator = Zero2]
            center == center_of(s.os.inner_size)
        IN [s3 EXCEPT !.self.last_cursor = center, !.self.capture_cursor = value]
    ELSE
        LET s1 == [call(s, "set_cursor_grab(false)") EXCEPT !.os.cursor_grab = "None"]
            s2 == [call(s1, "set_cursor_visible(true)") EXCEPT !.os.cursor_visible = TRUE]
        IN [s2 EXCEPT !.self.capture_cursor = value]

\* VulkanoWindow::set_should_close
vulkano_set_should_close(s, value) == [s EXCEPT !.self.should_close = value]

---------------------------------------------------------------------------
(* The platform behind VulkanoWindow, and the history kept for the claims *)

VDone(op, arg, ret, calls) ==
    [op |-> op, arg |-> arg, ret |-> ret, calls |-> calls, pre |-> v, pre_os |-> vos]

\* A VulkanoWindow is built.
InitVulkano(Settings, InnerSizes, ScaleFactors) ==
    /\ \E settings \in Settings : v = vulkano_new(settings)
    /\ \E size \in InnerSizes, scale \in ScaleFactors, cursor \in Positions :
          vos = [inner_size |-> size, scale_factor |-> scale, cursor |-> cursor,
                 cursor_grab |-> "None", cursor_visible |-> TRUE,
                 pending |-> <<>>]
    /\ vpc = "idle"
    /\ vmoves = 0
    /\ vlast = VDone("new", None, NoInput, <<>>)

\* The platform has one of Events for the window: it waits for the next pump.
VulkanoPlatformEvent(Events) ==
    /\ vpc = "idle"
    /\ Len(v.queued_events) + Len(vos.pending) < MaxPending
    /\ \E event \in Events :
         LET move == event.type = "CursorMoved"
         IN /\ move => vmoves < MaxFrameMoves
            /\ vos' = [platform(vos, event) EXCEPT
                          !.pending = Append(@, WindowEventOf(event))]
            /\ vmoves' = IF move THEN vmoves + 1 ELSE vmoves
            /\ vlast' = VDone("platform_event", event, NoInput, <<>>)
    /\ UNCHANGED <<v, vpc, wvars>>

\* The caller polls.
VulkanoPollEvent ==
    /\ vpc = "idle"
    /\ LET r == vulkano_poll_event(State(v, vos, <<>>))
       IN /\ v' = r.s.self
          /\ vos' = r.s.os
          /\ vlast' = VDone("poll_event", vos.pending, r.ret, r.s.calls)
    /\ UNCHANGED <<vpc, vmoves, wvars>>

\* The caller ends a frame.
VulkanoSwapBuffers ==
    /\ vpc = "idle"
    /\ v.capture_cursor => Len(v.queued_events) + Len(vos.pending) < MaxPending
    /\ LET s == vulkano_swap_buffers(State(v, vos, <<>>))
       IN /\ v' = s.self
          /\ vos' = s.os
          /\ vmoves' = 0
          /\ vlast' = VDone("swap_buffers", None, NoInput, s.calls)
    /\ UNCHANGED <<vpc, wvars>>

\* The caller switches cursor capture on or off.
VulkanoSetCaptureCursor ==
    /\ vpc = "idle"
    /\ \E value \in BOOLEAN :
         LET s == vulkano_set_capture_cursor(State(v, vos, <<>>), value)
         IN /\ v' = s.self
            /\ vos' = s.os
            /\ vmoves' = IF value # v.capture_cursor THEN 0 ELSE vmoves
            /\ vlast' = VDone("set_capture_cursor", value, NoInput, s.calls)
    /\ UNCHANGED <<vpc, wvars>>

\* The caller sets should_close.
VulkanoSetShouldClose ==
    /\ vpc = "idle"
    /\ \E value \in BOOLEAN :
         LET s == vulkano_set_should_close(State(v, vos, <<>>), value)
         IN /\ v' = s.self
            /\ vlast' = VDone("set_should_close", value, NoInput, s.calls)
    /\ UNCHANGED <<vos, vpc, vmoves, wvars>>

\* The caller sets the size of the VulkanoWindow, and the platform honours it.
VulkanoSetSize(RequestSizes) ==
    /\ vpc = "idle"
    /\ \E wh \in RequestSizes :
         LET s == set_size(State(v, vos, <<>>), wh)
         IN /\ v' = s.self
            /\ vos' = s.os
            /\ vlast' = VDone("set_size", wh, NoInput, s.calls)
    /\ UNCHANGED <<vpc, vmoves, wvars>>

---------------------------------------------------------------------------
(* Specifications *)

\* The program builds one of the two windows.
NoVulkano == /\ v = None /\ vos = None /\ vpc = "off" /\ vlast = None /\ vmoves = 0
NoWinit ==
    /\ w = None /\ os = None /\ pc = "off" /\ last = None /\ frame = None
    /\ owed = NotKept
    /\ NoHistory

\* One of the three calls made while a pump owns the event loop.
ReentrantCall ==
    /\ pc \in Pumping
    /\ w.event_loop = None
    /\ \E op \in {"poll_event", "wait_event", "wait_event_timeout"} :
         LET r == unpumped_call(State(w, os, <<>>), op)
         IN /\ w' = r.s.self
            /\ os' = r.s.os
            /\ last' = Done("reentrant", op, r.ret, r.s.calls)
            /\ due' = IF due.kept /\ due.events # <<>>
                      THEN [due EXCEPT !.events = Tail(@)]
                      ELSE due
            /\ twin' = IF twin.kept
                       THEN LET t == unpumped_call(State(twin.self, os, <<>>), op)
                            IN [twin EXCEPT !.self = t.s.self,
                                            !.mine = Told(@, r.ret),
                                            !.told = Told(@, t.ret)]
                       ELSE twin
            /\ twin.kept => Len(twin.mine) < MaxTold /\ Len(twin.told) < MaxTold
    /\ UNCHANGED <<pc, frame, owed, trail, vvars>>

CursorEvents == {CursorMoved(position) : position \in Positions}

CaptureSettings == {[exit_on_esc |-> FALSE, automatic_close |-> TRUE]}

InitCapture ==
    \/ /\ InitWinit(CaptureSettings, Sizes, Scales)
       /\ owed = NotKept
       /\ NoHistory
       /\ NoVulkano
    \/ /\ NoWinit
       /\ InitVulkano(CaptureSettings, Sizes, Scales)

NextCapture ==
    \/ PollEventEnter
    \/ Resumed
    \/ UserEvent
    \/ WindowEvent(CursorEvents)
    \/ PollEventReturn
    \/ NewReturn
    \/ SwapBuffers
    \/ SetCaptureCursor
    \/ VulkanoPlatformEvent(CursorEvents)
    \/ VulkanoPollEvent
    \/ VulkanoSwapBuffers
    \/ VulkanoSetCaptureCursor

\* Cursor capture: raw cursor moves, frames and capture switches.
SpecCapture == InitCapture /\ [][NextCapture]_vars

SessionSettings == {[exit_on_esc |-> FALSE, automatic_close |-> TRUE]}

InitSession ==
    /\ InitWinit(SessionSettings, {<<4, 4>>}, {1})
    /\ owed = Zero2
    /\ NoHistory
    /\ NoVulkano

NextSession ==
    \/ PollEventEnter
    \/ Resumed
    \/ UserEvent
    \/ WindowEvent(CursorEvents)
    \/ PollEventReturn
    \/ NewReturn
    \/ SwapBuffers
    \/ SetCaptureCursor

\* Captured sessions of WinitWindow at scale factor 1, with the displacement
\* the user has made and the platform has reported kept beside the window.
SpecSession == InitSession /\ [][NextSession]_vars

CloseSettings ==
    {[exit_on_esc |-> e, automatic_close |-> a] : e \in BOOLEAN, a \in BOOLEAN}

\* The close request, the destruction of the window and the key events of
\* the Escape key, without text and with the text some platforms give it.
CloseEvents ==
    {Plain("CloseRequested"), Plain("Destroyed")}
    \cup {KeyboardInput(Named("Escape"), state, text, FALSE) :
             state \in {"Pressed", "Released"}, text \in {None, Escape}}
VulkanoCloseEvents ==
    {Plain("CloseRequested")}
    \cup {KeyboardInputOf(key, state) :
             key \in {"Escape", "A"}, state \in {"Pressed", "Released"}}

InitClose ==
    \/ /\ InitWinit(CloseSettings, {<<4, 4>>}, {1})
       /\ owed = NotKept
       /\ NoHistory
       /\ NoVulkano
    \/ /\ NoWinit
       /\ InitVulkano(CloseSettings, {<<4, 4>>}, {1})

NextClose ==
    \/ PollEventEnter
    \/ WaitEventEnter
    \/ WaitEventTimeoutEnter
    \/ Resumed
    \/ UserEvent
    \/ WindowEvent(CloseEvents)
    \/ PollEventReturn
    \/ WaitEventReturn
    \/ WaitEventTimeoutReturn
    \/ NewReturn
    \/ SetShouldClose
    \/ SetAutomaticClose
    \/ VulkanoPlatformEvent(VulkanoCloseEvents)
    \/ VulkanoPollEvent
    \/ VulkanoSetShouldClose

\* Closing: close requests, the destruction of the window and the Escape key,
\* with exit_on_esc as the settings gave it.
SpecClose == InitClose /\ [][NextClose]_vars

KeySettings ==
    {[exit_on_esc |-> e, automatic_close |-> TRUE] : e \in BOOLEAN}

\* The text the platform gives with a press of a key.
TextOf(logical_key) ==
    IF logical_key = Named("Escape") THEN Escape ELSE logical_key[2]

\* The keys of the key events: a character key and the Escape key.
Keys == {Character("2"), Named("Escape")}

\* A press comes with or without text, flagged as a repeat or not; a release
\* comes without text.
KeyEvents ==
    {KeyboardInput(key, "Pressed", text, repeat) :
        key \in Keys, text \in {None}, repeat \in BOOLEAN}
    \cup {KeyboardInput(key, "Pressed", TextOf(key), repeat) :
             key \in Keys, repeat \in BOOLEAN}
    \cup {KeyboardInput(key, "Released", None, FALSE) : key \in Keys}

\* The characters and the key events VulkanoWindow receives: a digit and two
\* control characters, the keys of the digit and of Escape.
VulkanoKeyEvents ==
    {ReceivedCharacter(c) : c \in {"2", Escape, "\\t"}}
    \cup {KeyboardInputOf(key, state) :
             key \in {"D2", "Escape"}, state \in {"Pressed", "Released"}}

InitKeys ==
    \/ /\ InitWinit(KeySettings, {<<4, 4>>}, {1})
       /\ owed = NotKept
       /\ trail = NewTrail /\ due = NoDue /\ twin = NoTwin
       /\ NoVulkano
    \/ /\ NoWinit
       /\ InitVulkano(KeySettings, {<<4, 4>>}, {1})

NextKeys ==
    \/ PollEventEnter
    \/ Resumed
    \/ UserEvent
    \/ WindowEvent(KeyEvents)
    \/ PollEventReturn
    \/ NewReturn
    \/ VulkanoPlatformEvent(VulkanoKeyEvents)
    \/ VulkanoPollEvent

\* The keyboard of WinitWindow: presses and releases, with the last two key
\* events and what each appended to the queue kept beside the window.
SpecKeys == InitKeys /\ [][NextKeys]_vars

\* The key events of a shifted pair of map_key: the key of 2 and @.
ShiftKeys == {Character("2"), Character("@")}
ShiftEvents ==
    {KeyboardInput(key, "Pressed", TextOf(key), repeat) :
             key \in ShiftKeys, repeat \in BOOLEAN}
    \cup {KeyboardInput(key, "Released", None, FALSE) : key \in ShiftKeys}

InitTwins ==
    /\ InitWinit(KeySettings, {<<4, 4>>}, {1})
    /\ owed = NotKept
    /\ trail = NoTrail /\ due = NoDue /\ twin = NewTwin(w)
    /\ NoVulkano

NextTwins ==
    \/ PollEventEnter
    \/ Resumed
    \/ UserEvent
    \/ WindowEvent(ShiftEvents)
    \/ PollEventReturn
    \/ NewReturn
    \/ SetKeyboardIgnoreModifiers

\* Two WinitWindows given the same key events and the same calls, each with
\* the keyboard_ignore_modifiers its caller assigns.
SpecTwins == InitTwins /\ [][NextTwins]_vars

\* The presses, without text, of the characters of four of the shifted pairs
\* of map_key: a digit, the quotes, the backslash and the grave accent.
LayoutEvents ==
    {KeyboardInput(Character(t[i]), "Pressed", None, FALSE) :
        t \in {u \in ShiftTable : u[1] \in {"2", "'", "\\", Grave}}, i \in 1..2}

InitLayout ==
    /\ InitWinit({[exit_on_esc |-> FALSE, automatic_close |-> TRUE]}, {<<4, 4>>}, {1})
    /\ owed = NotKept
    /\ NoHistory
    /\ NoVulkano

NextLayout ==
    \/ PollEventEnter
    \/ Resumed
    \/ UserEvent
    \/ WindowEvent(LayoutEvents)
    \/ PollEventReturn
    \/ NewReturn
    \/ SetKeyboardIgnoreModifiers

\* The keyboard layout: map_key applied to the characters of its shifted
\* pairs under either setting of keyboard_ignore_modifiers.
SpecLayout == InitLayout /\ [][NextLayout]_vars

\* Keys and mouse buttons that the lookup tables of map_key and map_mouse do
\* not hold, with one key and one button that they hold.
UnknownKeys == {Character("+"), Named("Pause")}
UnknownMouseButtons == {<<"Back">>, <<"Other", 5>>}
UnknownEvents ==
    {KeyboardInput(key, state, None, FALSE) :
        key \in UnknownKeys \cup {Character("2")}, state \in {"Pressed", "Released"}}
    \cup {MouseInput(state, button) :
             state \in {"Pressed", "Released"},
             button \in UnknownMouseButtons \cup {<<"Left">>}}

InitUnknown ==
    /\ InitWinit({[exit_on_esc |-> TRUE, automatic_close |-> TRUE]}, {<<4, 4>>}, {1})
    /\ owed = NotKept
    /\ NoHistory
    /\ NoVulkano

NextUnknown ==
    \/ PollEventEnter
    \/ Resumed
    \/ UserEvent
    \/ WindowEvent(UnknownEvents)
    \/ PollEventReturn
    \/ NewReturn

\* Keys and mouse buttons outside the lookup tables.
SpecUnknown == InitUnknown /\ [][NextUnknown]_vars

\* Events of several kinds: focus, the destruction of the window, a key with
\* its text, a cursor move.
QueueEvents ==
    {Focused(TRUE), Plain("Destroyed"),
     KeyboardInput(Character("2"), "Pressed", "2", FALSE),
     KeyboardInput(Character("2"), "Released", None, FALSE),
     CursorMoved(<<0, 0>>)}

InitQueue ==
    /\ InitWinit({[exit_on_esc |-> FALSE, automatic_close |-> FALSE]}, {<<4, 4>>}, {1})
    /\ owed = NotKept
    /\ trail = NoTrail /\ due = NewDue /\ twin = NoTwin
    /\ NoVulkano

NextQueue ==
    \/ PollEventEnter
    \/ WaitEventEnter
    \/ WaitEventTimeoutEnter
    \/ Resumed
    \/ UserEvent
    \/ WindowEvent(QueueEvents)
    \/ PollEventReturn
    \/ WaitEventReturn
    \/ WaitEventTimeoutReturn
    \/ NewReturn
    \/ SwapBuffers
    \/ SetCaptureCursor

\* The event queue of WinitWindow, with the events appended to it and not yet
\* returned kept beside the window.
SpecQueue == InitQueue /\ [][NextQueue]_vars

LiveEvents == {Focused(TRUE), Focused(FALSE)}

InitLive ==
    \/ /\ InitWinit({[exit_on_esc |-> FALSE, automatic_close |-> FALSE]}, {<<4, 4>>}, {1})
       /\ owed = NotKept
       /\ NoHistory
       /\ NoVulkano
    \/ /\ NoWinit
       /\ InitVulkano({[exit_on_esc |-> FALSE, automatic_close |-> FALSE]}, {<<4, 4>>}, {1})

NextLive ==
    \/ PollEventEnter
    \/ WaitEventEnter
    \/ WaitEventTimeoutEnter
    \/ Resumed
    \/ UserEvent
    \/ WindowEvent(LiveEvents)
    \/ PollEventReturn
    \/ WaitEventReturn
    \/ WaitEventTimeoutReturn
    \/ NewReturn
    \/ VulkanoPlatformEvent(LiveEvents)
    \/ VulkanoPollEvent

\* The calls of the caller and the pump, with the platform free to have no
\* event for the window.  The event loop dispatches an event that is pending
\* for it (the WakeUp event, and Resumed in the first pump), and a pump
\* that may return does return, as does the call that started it; the
\* platform owes the window no event.
SpecLive ==
    /\ InitLive
    /\ [][NextLive]_vars
    /\ WF_vars(UserEvent)
    /\ WF_vars(Resumed)
    /\ WF_vars(PollEventReturn)
    /\ WF_vars(WaitEventReturn)
    /\ WF_vars(WaitEventTimeoutReturn)
    /\ WF_vars(NewReturn)

\* A window of 640x480 pixels and the sizes the platform resizes it to.
ResizeEvents == {Resized(size) : size \in {<<800, 600>>, <<801, 601>>, <<640, 480>>}}

InitResize ==
    /\ InitWinit({[exit_on_esc |-> FALSE, automatic_close |-> FALSE]},
                 {<<640, 480>>}, Scales)
    /\ owed = NotKept
    /\ NoHistory
    /\ NoVulkano

NextResize ==
    \/ PollEventEnter
    \/ Resumed
    \/ UserEvent
    \/ WindowEvent(ResizeEvents)
    \/ PollEventReturn
    \/ NewReturn
    \/ GetSize
    \/ GetDrawSize

\* Resizes of the window by the platform, at scale factors 1 and 2.
SpecResize == InitResize /\ [][NextResize]_vars

HandleEvents == {Focused(TRUE), Plain("CloseRequested"), CursorMoved(<<0, 0>>)}

InitHandle ==
    /\ InitWinit({[exit_on_esc |-> FALSE, automatic_close |-> TRUE]}, {<<4, 4>>}, {1})
    /\ owed = NotKept
    /\ NoHistory
    /\ NoVulkano

NextHandle ==
    \/ PollEventEnter
    \/ WaitEventEnter
    \/ WaitEventTimeoutEnter
    \/ Resumed
    \/ UserEvent
    \/ WindowEventUnwrap(HandleEvents)
    \/ WindowEvent(HandleEvents)
    \/ PollEventReturn
    \/ WaitEventReturn
    \/ WaitEventTimeoutReturn
    \/ NewReturn
    \/ SwapBuffers
    \/ SetCaptureCursor
    \/ SetShouldClose
    \/ GetSize
    \/ GetDrawSize

\* The window handle: the operations of WinitWindow, with window events that
\* may come before the platform has created the window.
SpecHandle == InitHandle /\ [][NextHandle]_vars

---------------------------------------------------------------------------
(* The claims *)

\* The event-loop slot: the three calls, pumps that deliver events, and
\* calls made while a pump is running.
SlotEvents == {Focused(TRUE), Focused(FALSE), Plain("Destroyed")}

InitSlot ==
    /\ InitWinit({[exit_on_esc |-> FALSE, automatic_close |-> FALSE]}, {<<4, 4>>}, {1})
    /\ owed = NotKept
    /\ NoHistory
    /\ NoVulkano

NextSlot ==
    \/ PollEventEnter
    \/ WaitEventEnter
    \/ WaitEventTimeoutEnter
    \/ Resumed
    \/ UserEvent
    \/ WindowEvent(SlotEvents)
    \/ ReentrantCall
    \/ PollEventReturn
    \/ WaitEventReturn
    \/ WaitEventTimeoutReturn
    \/ NewReturn

SpecSlot == InitSlot /\ [][NextSlot]_vars

\* The events map_window_event has no input for, among events that queue
\* one and calls that change the capture state.
UnmappedTypes ==
    {"Moved", "ModifiersChanged", "TouchpadPressure", "PinchGesture",
     "RotationGesture", "PanGesture", "DoubleTapGesture", "AxisMotion", "Touch",
     "ActivationTokenDone", "ThemeChanged", "Ime", "Occluded"}

UnmappedEvents ==
    {Plain(type) : type \in UnmappedTypes}
    \cup {ScaleFactorChanged(scale_factor) : scale_factor \in {1, 2}}

MappedEvents ==
    {CursorMoved(<<0, 0>>), KeyboardInput(Character("2"), "Pressed", None, FALSE)}

InitUnmapped ==
    /\ InitWinit({[exit_on_esc |-> TRUE, automatic_close |-> TRUE]}, {<<4, 4>>}, {1})
    /\ owed = NotKept
    /\ NoHistory
    /\ NoVulkano

NextUnmapped ==
    \/ PollEventEnter
    \/ Resumed
    \/ UserEvent
    \/ WindowEvent(UnmappedEvents \cup MappedEvents)
    \/ PollEventReturn
    \/ NewReturn
    \/ SetCaptureCursor
    \/ SetShouldClose

SpecUnmapped == InitUnmapped /\ [][NextUnmapped]_vars

\* The close flag: everything that sets it, among events and calls that
\* have nothing to do with it.
FlagEvents ==
    {Plain("CloseRequested"), Plain("Destroyed"), Focused(TRUE),
     KeyboardInput(Named("Escape"), "Pressed", None, FALSE),
     KeyboardInput(Named("Escape"), "Pressed", Escape, TRUE),
     KeyboardInput(Named("Escape"), "Released", None, FALSE),
     KeyboardInput(Character("2"), "Pressed", None, FALSE)}

InitFlag ==
    /\ InitWinit(CloseSettings, {<<4, 4>>}, {1})
    /\ owed = NotKept
    /\ NoHistory
    /\ NoVulkano

NextFlag ==
    \/ PollEventEnter
    \/ WaitEventEnter
    \/ Resumed
    \/ UserEvent
    \/ WindowEvent(FlagEvents)
    \/ PollEventReturn
    \/ WaitEventReturn
    \/ NewReturn
    \/ SwapBuffers
    \/ SetCaptureCursor
    \/ SetShouldClose
    \/ SetExitOnEsc
    \/ SetAutomaticClose

SpecFlag == InitFlag /\ [][NextFlag]_vars

\* Sizes set by the caller, at scale factors 1 and 2.
SetSizes == {<<4, 4>>, <<3, 5>>, <<8, 4>>}

InitSize ==
    \/ /\ InitWinit({[exit_on_esc |-> FALSE, automatic_close |-> FALSE]},
                    {<<4, 4>>}, Scales)
       /\ owed = NotKept
       /\ NoHistory
       /\ NoVulkano
    \/ /\ NoWinit
       /\ InitVulkano({[exit_on_esc |-> FALSE, automatic_close |-> FALSE]},
                      {<<4, 4>>}, Scales)

NextSize ==
    \/ PollEventEnter
    \/ Resumed
    \/ UserEvent
    \/ PollEventReturn
    \/ NewReturn
    \/ SetSize(SetSizes)
    \/ GetSize
    \/ GetDrawSize
    \/ VulkanoSetSize(SetSizes)
    \/ VulkanoPollEvent

SpecSize == InitSize /\ [][NextSize]_vars

Winit == pc # "off"
Vulkano == vpc # "off"

\* The queue `before` after its first event, if any, is popped.
Popped(before) == IF before = <<>> THEN <<>> ELSE Tail(before)

\* swap_buffers has just ended a captured frame of WinitWindow in which the
\* platform delivered exactly three raw moves, none at the center.
C1_Case ==
    /\ Winit
    /\ last.op = "swap_buffers"
    /\ last.pre.capture_cursor
    /\ Len(last.arg.moves) = 3
    /\ \A i \in 1..3 : last.arg.moves[i].position # last.arg.moves[i].center

C2_NothingOwed ==
    (Winit /\ last.op = "swap_buffers" /\ last.pre.capture_cursor) => owed = Zero2

\* A raw move at the center of the window has just been handled while the
\* cursor was captured: by WinitWindow, by VulkanoWindow.
C3_WinitCase ==
    /\ Winit
    /\ last.op = "window_event"
    /\ last.arg.type = "CursorMoved"
    /\ last.pre.capture_cursor
    /\ last.arg.position = center_of(os.inner_size)
C3_VulkanoCase ==
    /\ Vulkano
    /\ vlast.op = "poll_event"
    /\ vlast.pre.capture_cursor
    /\ vlast.arg # <<>>
    /\ \A i \in 1..Len(vlast.arg) :
          /\ vlast.arg[i].event.type = "CursorMoved"
          /\ vlast.arg[i].event.position = center_of(vos.inner_size)

\* C3: while capture is active, a raw move at the center of the window leaves
\* the accumulator as it was and appends no event to the queue, in
\* WinitWindow and in VulkanoWindow.
C3_CenterIgnored ==
    /\ C3_WinitCase =>
          /\ w.cursor_accumulator = last.pre.cursor_accumulator
          /\ w.events = last.pre.events
    /\ C3_VulkanoCase =>
          /\ v.cursor_accumulator = vlast.pre.cursor_accumulator
          /\ v.queued_events = Popped(vlast.pre.queued_events)

\* A move at the center has been ignored while the accumulator held a delta.
C3_Witness == C3_WinitCase /\ w.cursor_accumulator # Zero2

\* The places of the events of one kind of motion in a queue.
Motions(queue, motion) ==
    {i \in 1..Len(queue) : queue[i].kind = "Move" /\ queue[i].motion = motion}

\* WinitWindow has just handled a raw cursor move that arrived while the
\* cursor was captured.
C4_Case ==
    /\ Winit
    /\ last.op = "window_event"
    /\ last.arg.type = "CursorMoved"
    /\ last.pre.capture_cursor

\* C4: a raw CursorMoved event that arrives while capture_cursor is true
\* never appends a MouseCursor event to the queue of WinitWindow; a
\* MouseCursor event is appended only by a move that arrives while
\* capture_cursor is false.
C4_NoCursorWhileCaptured ==
    /\ C4_Case => Motions(w.events, "MouseCursor") = Motions(last.pre.events, "MouseCursor")
    /\ (/\ Winit
        /\ Cardinality(Motions(w.events, "MouseCursor")) >
              Cardinality(Motions(last.pre.events, "MouseCursor")))
          => /\ last.op = "window_event"
             /\ last.arg.type = "CursorMoved"
             /\ ~last.pre.capture_cursor
             /\ w.events = Append(last.pre.events,
                                  Move("MouseCursor",
                                       to_logical(last.arg.position, os.scale_factor)))

\* A captured move away from the center has been taken into the accumulator.
C4_Witness ==
    /\ C4_Case
    /\ last.arg.position # center_of(os.inner_size)
    /\ w.cursor_accumulator # last.pre.cursor_accumulator

\* C5: swap_buffers appends exactly one MouseRelative event carrying the whole
\* accumulator and zeroes the accumulator when capture is active; it appends
\* nothing and changes no state when capture is inactive.  No other operation
\* appends a MouseRelative event, so the n >= 0 raw moves of a captured frame
\* yield one relative-motion event.  In WinitWindow and in VulkanoWindow.
C5_OneRelativePerFrame ==
    /\ (Winit /\ last.op = "swap_buffers") =>
          IF last.pre.capture_cursor
          THEN /\ w.events = Append(last.pre.events,
                                    Move("MouseRelative", last.pre.cursor_accumulator))
               /\ w.cursor_accumulator = Zero2
          ELSE /\ w = last.pre
               /\ os = last.pre_os
               /\ last.calls = <<>>
    /\ (Winit /\ last.op # "swap_buffers") =>
          Cardinality(Motions(w.events, "MouseRelative")) <=
             Cardinality(Motions(last.pre.events, "MouseRelative"))
    /\ (Vulkano /\ vlast.op = "swap_buffers") =>
          IF vlast.pre.capture_cursor
          THEN /\ v.queued_events = Append(vlast.pre.queued_events,
                                           Move("MouseRelative", vlast.pre.cursor_accumulator))
               /\ v.cursor_accumulator = Zero2
          ELSE /\ v = vlast.pre
               /\ vos = vlast.pre_os
               /\ vlast.calls = <<>>
    /\ (Vulkano /\ vlast.op # "swap_buffers") =>
          Cardinality(Motions(v.queued_events, "MouseRelative")) <=
             Cardinality(Motions(vlast.pre.queued_events, "MouseRelative"))

\* A captured frame of three raw moves has been flushed as one event.
C5_Witness ==
    /\ Winit
    /\ last.op = "swap_buffers"
    /\ last.pre.capture_cursor
    /\ Len(last.arg.moves) = 3
    /\ last.pre.cursor_accumulator # Zero2
    /\ Cardinality(Motions(w.events, "MouseRelative")) = 1

\* C6: set_capture_cursor(v) called when capture_cursor is v already changes
\* no field of the window and makes no platform call; set_capture_cursor(true)
\* in a captured session leaves a non-zero accumulator as it is.  In
\* WinitWindow and in VulkanoWindow.
C6_SameValueNoOp ==
    /\ (/\ Winit
        /\ last.op = "set_capture_cursor"
        /\ last.arg = last.pre.capture_cursor)
          => /\ w = last.pre
             /\ os = last.pre_os
             /\ last.calls = <<>>
    /\ (/\ Vulkano
        /\ vlast.op = "set_capture_cursor"
        /\ vlast.arg = vlast.pre.capture_cursor)
          => /\ v = vlast.pre
             /\ vos = vlast.pre_os
             /\ vlast.calls = <<>>

\* set_capture_cursor(true) has been called in a captured session whose
\* accumulator is not zero.
C6_Witness ==
    /\ Winit
    /\ last.op = "set_capture_cursor"
    /\ last.arg
    /\ last.pre.capture_cursor
    /\ last.pre.cursor_accumulator # Zero2
    /\ w.cursor_accumulator = last.pre.cursor_accumulator

\* A call of WinitWindow that pops the queue and returns what it popped.
Pops == {"poll_event", "wait_event", "wait_event_timeout"}

\* C7: when VulkanoWindow::poll_event, or poll_event, wait_event or
\* wait_event_timeout of a WinitWindow with automatic_close enabled, pops
\* and returns a close event, should_close() is true when the call returns.
C7_CloseSetsFlag ==
    /\ (/\ Winit
        /\ last.op \in Pops
        /\ last.ret = Close
        /\ last.pre.automatic_close)
          => should_close(w)
    /\ (/\ Vulkano
        /\ vlast.op = "poll_event"
        /\ vlast.ret = Close)
          => v.should_close

\* wait_event of a WinitWindow with automatic_close enabled has returned a
\* close event and raised a flag that was down.
C7_Witness ==
    /\ Winit
    /\ last.op = "wait_event"
    /\ last.ret = Close
    /\ last.pre.automatic_close
    /\ ~last.pre.should_close
    /\ should_close(w)

\* C8 as stated: while automatic_close of a WinitWindow is false, neither a
\* close request of the platform nor a close event popped from the queue
\* changes should_close.
C8_FlagKeptWithoutAutomaticClose ==
    (/\ Winit
     /\ ~last.pre.automatic_close
     /\ \/ last.op = "window_event" /\ last.arg.type = "CloseRequested"
        \/ last.op \in Pops /\ last.ret = Close)
       => w.should_close = last.pre.should_close

\* C9 as stated: a close request of the platform appends exactly one close
\* event to the queue, for both values of automatic_close in WinitWindow,
\* and in VulkanoWindow.
C9_CloseRequestQueued ==
    /\ (/\ Winit
        /\ last.op = "window_event"
        /\ last.arg.type = "CloseRequested")
          => w.events = Append(last.pre.events, Close)
    /\ (/\ Vulkano
        /\ vlast.op = "poll_event"
        /\ vlast.arg = <<WindowEventOf(Plain("CloseRequested"))>>)
          => Append(vlast.pre.queued_events, Close) = <<vlast.ret>> \o v.queued_events

\* The button events of the Escape key.
EscapeButtons == {Button(state, "Keyboard", "Escape") : state \in {"Press", "Release"}}
Holds(queue, inputs) == \E i \in 1..Len(queue) : queue[i] \in inputs

\* C10: with exit_on_esc enabled, no button event of the Escape key is in
\* the queue or returned to the caller, and should_close is true as soon as
\* a press of the Escape key has been processed.  In WinitWindow and in
\* VulkanoWindow.
C10_EscapeIntercepted ==
    /\ (Winit /\ w.exit_on_esc) =>
          /\ ~Holds(w.events, EscapeButtons)
          /\ last.op \in Pops => last.ret \notin EscapeButtons
          /\ (/\ last.op = "window_event"
              /\ last.arg.type = "KeyboardInput"
              /\ last.arg.logical_key = Named("Escape")
              /\ last.arg.state = "Pressed")
                => should_close(w)
    /\ (Vulkano /\ v.exit_on_esc) =>
          /\ ~Holds(v.queued_events, EscapeButtons)
          /\ vlast.op = "poll_event" =>
                /\ vlast.ret \notin EscapeButtons
                /\ Holds(vlast.arg, {WindowEventOf(KeyboardInputOf("Escape", "Pressed"))})
                      => v.should_close

\* A press of the Escape key has closed a WinitWindow with exit_on_esc, and
\* has left its queue as it was.
C10_Witness ==
    /\ Winit
    /\ w.exit_on_esc
    /\ last.op = "window_event"
    /\ last.arg.type = "KeyboardInput"
    /\ last.arg.logical_key = Named("Escape")
    /\ last.arg.state = "Pressed"
    /\ ~last.pre.should_close
    /\ should_close(w)
    /\ w.events = last.pre.events

\* The number of button presses of the keyboard in a sequence of events.
RECURSIVE Presses(_)
Presses(queue) ==
    IF queue = <<>> THEN 0
    ELSE (IF Head(queue).kind = "Button" /\ Head(queue).state = "Press"
             /\ Head(queue).device = "Keyboard" THEN 1 ELSE 0)
         + Presses(Tail(queue))

\* The last two window events were presses of one logical key, handled under
\* one setting of keyboard_ignore_modifiers.
TwoPresses ==
    /\ Winit
    /\ trail.kept
    /\ Len(trail.keys) = 2
    /\ \A i \in 1..2 : /\ trail.keys[i].event.type = "KeyboardInput"
                        /\ trail.keys[i].event.state = "Pressed"
    /\ trail.keys[1].event.logical_key = trail.keys[2].event.logical_key
    /\ trail.keys[1].pre.keyboard_ignore_modifiers
          = trail.keys[2].pre.keyboard_ignore_modifiers

\* The first of two presses is the press of a key that was up: the platform
\* does not flag it as a repeat, the key is not the one last pressed, and it
\* is not the Escape key of exit_on_esc.
FirstIsFresh ==
    LET first == trail.keys[1] IN
    /\ ~first.event.repeat
    /\ first.pre.last_key_pressed
          # map_key(first.event.logical_key, first.pre.keyboard_ignore_modifiers)
    /\ ~(first.pre.exit_on_esc /\ first.event.logical_key = Named("Escape"))

\* C11: two consecutive presses of one logical key, the first being the press
\* of a key that was up, append exactly one button press to the queue,
\* whether the presses carry text or not and whether the platform flags the
\* second as a repeat or not.
C11_OnePressQueued ==
    TwoPresses /\ FirstIsFresh =>
        Presses(trail.keys[1].out \o trail.keys[2].out) = 1

\* Two presses with text, the second not flagged as a repeat by the platform.
C11_Witness ==
    /\ TwoPresses /\ FirstIsFresh
    /\ trail.keys[1].event.text # None
    /\ trail.keys[2].event.text # None
    /\ ~trail.keys[2].event.repeat
    /\ Presses(trail.keys[1].out) = 1

\* The text events in a sequence of events.
Texts(queue) == SelectSeq(queue, LAMBDA e : e.kind = "Text")

\* C12: of two consecutive presses of one key, each with text, the first being
\* the press of a key that was up, each appends one text event with its text
\* to the queue, whether the platform flags the second as a repeat or not.
C12_TextPerKeystroke ==
    /\ TwoPresses /\ FirstIsFresh
    /\ trail.keys[1].event.text # None
    /\ trail.keys[2].event.text # None
    => \A i \in 1..2 :
          Texts(trail.keys[i].out) = <<Text(trail.keys[i].event.text)>>

\* C13: two WinitWindows that differ in keyboard_ignore_modifiers only, given
\* the same key events and the same calls, return the same text events in
\* the same order.
C13_SameTexts ==
    Winit /\ twin.kept => twin.mine = twin.told

\* A text event of a control character.
ControlTexts == {Text(c) : c \in ControlCharacters}

\* C14: no text event of a control character is in the queue of WinitWindow
\* or of VulkanoWindow, with exit_on_esc on or off.
C14_NoControlText ==
    /\ Winit => ~Holds(w.events, ControlTexts)
    /\ Vulkano => ~Holds(v.queued_events, ControlTexts)

\* The pairs <<unshifted, shifted>> of characters of a keyboard: the digits
\* and the punctuation keys.
ShiftedPairs ==
    { <<"0", ")">>, <<"1", "!">>, <<"2", "@">>, <<"3", "#">>, <<"4", "$">>,
      <<"5", "%">>, <<"6", "^">>, <<"7", "&">>, <<"8", "*">>, <<"9", "(">>,
      <<"'", "\"">>, <<";", ":">>, <<"[", "{">>, <<"]", "}">>, <<"\\", "|">>,
      <<",", "<">>, <<".", ">">>, <<"/", "?">>, <<Grave, "~">> }

\* window_event has just handled the press of a character of the pair p and
\* has queued a button for it.
PressQueued(p) ==
    /\ Winit
    /\ last.op = "window_event"
    /\ last.arg.type = "KeyboardInput"
    /\ last.arg.logical_key \in {Character(p[1]), Character(p[2])}
    /\ Len(w.events) > Len(last.pre.events)

\* C15: for every pair of an unshifted and a shifted character, map_key gives
\* under AbcKeyCode one key for both, the key of the unshifted character under
\* None, and under None two distinct keys; the button queued for a press of
\* either character is the button of that key.
C15_ShiftedPairs ==
    \A p \in ShiftedPairs :
        LET lo == Character(p[1])
            hi == Character(p[2])
        IN /\ map_key(lo, "AbcKeyCode") = map_key(lo, "None")
           /\ map_key(hi, "AbcKeyCode") = map_key(lo, "None")
           /\ map_key(hi, "None") # map_key(lo, "None")
           /\ PressQueued(p) /\ w.keyboard_ignore_modifiers = "AbcKeyCode"
                 => Final(w.events) = Button("Press", "Keyboard", map_key(lo, "None"))
           /\ PressQueued(p) /\ w.keyboard_ignore_modifiers = "None"
                 => Final(w.events)
                      = Button("Press", "Keyboard", map_key(last.arg.logical_key, "None"))

\* The press of ~ under AbcKeyCode has queued the button of the key of the
\* grave accent.
C15_Witness ==
    /\ PressQueued(<<Grave, "~">>)
    /\ last.arg.logical_key = Character("~")
    /\ w.keyboard_ignore_modifiers = "AbcKeyCode"
    /\ Final(w.events) = Button("Press", "Keyboard", "Backquote")

\* window_event has just handled an event of the given type.
JustHandled(type) ==
    /\ Winit
    /\ last.op = "window_event"
    /\ last.arg.type = type

\* The button of the state of a key or mouse event.
ButtonState(state) == IF state = "Pressed" THEN "Press" ELSE "Release"

Nothing(op) == IF op = "wait_event" THEN Idle ELSE NoInput

\* C17: the queue of WinitWindow holds, in the order they were appended, the
\* events appended by window_event and swap_buffers and not yet returned;
\* poll_event, wait_event and wait_event_timeout return and remove the oldest
\* of them, and new leaves the queue as it was before the event it popped.
C17_FifoLossless ==
    Winit /\ due.kept =>
        /\ w.events = due.events
        /\ last.op \in Pops =>
              /\ last.ret = IF last.pre.events = <<>> THEN Nothing(last.op)
                            ELSE Head(last.pre.events)
              /\ w.events = Popped(last.pre.events)
        /\ last.op = "new" => w.events = last.pre.events
        /\ last.op \in {"window_event", "swap_buffers"} =>
              /\ Len(w.events) >= Len(last.pre.events)
              /\ SubSeq(w.events, 1, Len(last.pre.events)) = last.pre.events

\* new has returned with the event it popped put back in front of another.
C17_Witness ==
    /\ Winit /\ due.kept
    /\ last.op = "new"
    /\ pc = "idle"
    /\ Len(w.events) >= 2
    /\ w.events[1] # w.events[2]

\* C18: wait_event always returns an event: with the queue empty after the
\* pump it returns the idle event of dt 0 and leaves the queue and
\* should_close as they were; otherwise it returns the oldest queued event.
C18_WaitEventReturnsEvent ==
    Winit /\ last.op = "wait_event" =>
        /\ last.ret # NoInput
        /\ last.pre.events = <<>> =>
              /\ last.ret = Idle
              /\ last.ret.dt = 0
              /\ w.events = <<>>
              /\ w.should_close = last.pre.should_close
        /\ last.pre.events # <<>> => last.ret = Head(last.pre.events)

\* wait_event has returned the idle event from a window that should close.
C18_Witness ==
    /\ Winit
    /\ last.op = "wait_event"
    /\ last.pre.events = <<>>
    /\ last.ret = Idle
    /\ w.should_close

\* C19: every poll_event, wait_event and wait_event_timeout call of
\* WinitWindow sends the WakeUp event before it pumps and returns to the
\* caller, whether the platform has an event for the window or not; the
\* poll_event of VulkanoWindow sends the WakeUp event and returns with every
\* event that was pending handled.
C19_PollCycleTerminates ==
    /\ [](Winit /\ last.op = "pump_enter" =>
            /\ last.calls = <<"send_event(WakeUp)">>
            /\ os.wake \in {"sent", "handled"})
    /\ (Winit /\ pc \in Pumping) ~> (pc = "idle")
    /\ [](Vulkano /\ vlast.op = "poll_event" =>
            /\ Head(vlast.calls) = "send_event(WakeUp)"
            /\ vos.pending = <<>>)

\* wait_event has returned from a pump that had the WakeUp event only.
C19_Witness ==
    /\ Winit
    /\ pc = "idle"
    /\ last.op = "wait_event"
    /\ last.pre_os.wake = "handled"
    /\ last.pre.events = <<>>
    /\ last.ret = Idle
    /\ os.wake = "idle"

\* C20: poll_event, wait_event_timeout and wait_event, returning from one
\* state of the window after the pump, leave one and the same window (queue,
\* should_close, capture and key marker among its fields) and return the same
\* event, except that wait_event returns the idle event where the other two
\* return none; the call that has just returned is one of the three.
C20_SameTail ==
    Winit /\ last.op \in Pops =>
        LET s == State(last.pre, last.pre_os, <<>>)
            p == poll_event_return(s)
            t == wait_event_timeout_return(s)
            e == wait_event_return(s)
        IN /\ p.s.self = w /\ t.s.self = w /\ e.s.self = w
           /\ p.ret = t.ret
           /\ e.ret = IF p.ret = NoInput THEN Idle ELSE p.ret
           /\ last.ret = IF last.op = "wait_event" THEN e.ret ELSE p.ret

\* wait_event_timeout has returned a close event and has set should_close.
C20_Witness ==
    /\ Winit
    /\ last.op = "wait_event_timeout"
    /\ last.ret = Close
    /\ ~last.pre.should_close
    /\ w.should_close

\* C21: a resize of the window to the inner size (w, h) queues a Resize event
\* with window_size (w, h); from then on size() returns (w, h) divided by the
\* scale factor and rounded down, and draw_size() returns (w, h); at scale
\* factor 1 the two are equal.
C21_SizesAfterResize ==
    /\ JustHandled("Resized") =>
          LET wh == last.arg.size
              s == State(w, os, <<>>)
          IN /\ Final(w.events).kind = "Resize"
             /\ Final(w.events).window_size = wh
             /\ Len(w.events) = Len(last.pre.events) + 1
             /\ \A i \in 1..2 :
                   /\ Window_size(s)[i] * os.scale_factor <= wh[i]
                   /\ wh[i] < (Window_size(s)[i] + 1) * os.scale_factor
             /\ draw_size(s) = wh
             /\ os.scale_factor = 1 => Window_size(s) = draw_size(s)
    /\ Winit /\ last.op = "size" =>
          \A i \in 1..2 :
             /\ last.ret.size[i] * os.scale_factor <= os.inner_size[i]
             /\ os.inner_size[i] < (last.ret.size[i] + 1) * os.scale_factor
    /\ Winit /\ last.op = "draw_size" => last.ret.size = os.inner_size

\* The window of 640x480 at scale factor 1 has been resized to 800x600 and
\* size() has returned (800, 600), which draw_size() returns too.
C21_Witness ==
    /\ Winit
    /\ last.op = "size"
    /\ os.scale_factor = 1
    /\ os.inner_size = <<800, 600>>
    /\ last.ret = SizeOf(<<800, 600>>)
    /\ draw_size(State(w, os, <<>>)) = <<800, 600>>

\* The delta of the raw moves of a frame, the first measured from base, each
\* of the others from the position before it divided by the scale factor;
\* a move at the center adds nothing.
RECURSIVE FrameDelta(_, _, _)
FrameDelta(base, moves, scale_factor) ==
    IF moves = <<>> THEN Zero2
    ELSE LET move == Head(moves)
             rest == FrameDelta(to_logical(move.position, scale_factor),
                                Tail(moves), scale_factor)
         IN IF move.position = move.center THEN rest
            ELSE Add2(Sub2(move.position, base), rest)

\* C22: a delta that is in the accumulator when set_capture_cursor(false) is
\* called is never delivered: that call appends no event, no operation on an
\* uncaptured window appends a relative motion, set_capture_cursor(true)
\* starts the next session with the accumulator at (0,0), and the accumulator
\* of a captured window is the delta of the moves of its current frame alone.
C22_DroppedDelta ==
    /\ Winit /\ last.op = "set_capture_cursor" /\ ~last.arg =>
          w.events = last.pre.events
    /\ Winit /\ last.op = "swap_buffers" /\ ~last.pre.capture_cursor =>
          w.events = last.pre.events
    /\ Winit /\ ~last.pre.capture_cursor =>
          Cardinality(Motions(w.events, "MouseRelative"))
             <= Cardinality(Motions(last.pre.events, "MouseRelative"))
    /\ Winit /\ last.op = "set_capture_cursor" /\ ~last.pre.capture_cursor
          /\ w.capture_cursor =>
          w.cursor_accumulator = Zero2
    /\ Winit /\ w.capture_cursor =>
          w.cursor_accumulator = FrameDelta(frame.base, frame.moves, os.scale_factor)
    /\ Winit /\ last.op = "swap_buffers" /\ last.pre.capture_cursor =>
          Final(w.events) =
             Move("MouseRelative",
                  FrameDelta(last.arg.base, last.arg.moves, os.scale_factor))

\* Capture has been switched on again over a window whose accumulator held a
\* delta left from the session before.
C22_Witness ==
    /\ Winit
    /\ last.op = "set_capture_cursor"
    /\ last.arg
    /\ ~last.pre.capture_cursor
    /\ last.pre.cursor_accumulator # Zero2
    /\ w.capture_cursor
    /\ w.cursor_accumulator = Zero2

C24_NextMove ==
    /\ C4_Case
    /\ last.arg.position # center_of(os.inner_size)
    /\ Len(frame.moves) >= 2
    /\ frame.moves[Len(frame.moves) - 1].position = center_of(os.inner_size)

PressAppended ==
    /\ Winit
    /\ trail.kept
    /\ trail.keys # <<>>
    /\ Presses(Final(trail.keys).out) = 1

\* C25 as stated: no press of a key k is appended to the queue while a press
\* of k has been appended and no release of k since, however the presses and
\* releases of other keys interleave.
C25_Original ==
    PressAppended =>
        Final(KeyButtons(Final(trail.keys).out)).button \notin Final(trail.keys).held

\* C25 as amended: a press of the key k is suppressed when k is the key last
\* pressed with no release of k since, that is when last_key_pressed is k;
\* the queue never gets two presses of k in a row, and a press of k appended
\* while k is held comes right after the button event of another key.
C25_NoPressTwiceRunning ==
    PressAppended =>
        LET entry == Final(trail.keys)
            press == Final(KeyButtons(entry.out))
        IN /\ entry.pre.last_key_pressed # press.button
           /\ w.last_key_pressed = press.button
           /\ entry.button # press
           /\ press.button \in entry.held =>
                 /\ entry.button.kind = "Button"
                 /\ entry.button.button # press.button

\* Press 2, press Escape, press 2 again with 2 still held: the second press
\* of 2 has been appended.
C25_Witness ==
    /\ PressAppended
    /\ Final(KeyButtons(Final(trail.keys).out)).button = "D2"
    /\ "D2" \in Final(trail.keys).held
    /\ Final(trail.keys).button = Button("Press", "Keyboard", "Escape")

\* window_event has just handled a key event that handle_event did not
\* intercept as the Escape of exit_on_esc.
KeyHandled ==
    /\ Winit
    /\ trail.kept
    /\ trail.keys # <<>>
    /\ ~(Final(trail.keys).pre.exit_on_esc
          /\ Final(trail.keys).event.logical_key = Named("Escape"))

\* What C26 says of the key event handled last: a press with text that the
\* platform does not flag appends the press and then the text, a press with
\* text that it flags appends the text and keeps last_key_pressed, an event
\* without text appends at most one button event.
Decoupled(entry) ==
    LET event == entry.event
        key == map_key(event.logical_key, entry.pre.keyboard_ignore_modifiers)
    IN /\ event.text # None /\ event.state = "Pressed" /\ ~event.repeat =>
             entry.out = <<Button("Press", "Keyboard", key), Text(event.text)>>
       /\ event.text # None /\ event.state = "Pressed" /\ event.repeat =>
             /\ entry.out = <<Text(event.text)>>
             /\ w.last_key_pressed = entry.pre.last_key_pressed
       /\ event.text = None =>
             /\ Len(entry.out) <= 1
             /\ \A i \in 1..Len(entry.out) : entry.out[i].kind = "Button"

\* C26: in WinitWindow a key press with text that is not flagged as a repeat
\* appends its button press and right after it its text event, a flagged
\* repeat with text appends the text event only and leaves last_key_pressed
\* as it was, and a key event without text appends at most a button event.
C26_ButtonAndTextDecoupled ==
    KeyHandled => Decoupled(Final(trail.keys))

\* set_capture_cursor(true) has just taken the WinitWindow, or the
\* VulkanoWindow, from Normal to Captured.
C27_WinitCase ==
    Winit /\ last.op = "set_capture_cursor" /\ last.arg /\ ~last.pre.capture_cursor

C27_VulkanoCase ==
    Vulkano /\ vlast.op = "set_capture_cursor" /\ vlast.arg /\ ~vlast.pre.capture_cursor

\* C27: right after set_capture_cursor(true) has captured the cursor,
\* cursor_accumulator is (0, 0), last_cursor is the center of the window and
\* capture_cursor is true, whatever the three were before, and a
\* swap_buffers called in that state appends the relative motion (0, 0).
C27_FreshSession ==
    /\ C27_WinitCase =>
          /\ w.capture_cursor
          /\ w.cursor_accumulator = Zero2
          /\ w.last_cursor = center_of(os.inner_size)
          /\ LET s == swap_buffers(State(w, os, <<>>))
             IN /\ s.self.events = Append(w.events, Move("MouseRelative", Zero2))
                /\ s.self.cursor_accumulator = Zero2
    /\ C27_VulkanoCase =>
          /\ v.capture_cursor
          /\ v.cursor_accumulator = Zero2
          /\ v.last_cursor = center_of(vos.inner_size)
          /\ LET s == vulkano_swap_buffers(State(v, vos, <<>>))
             IN /\ s.self.queued_events
                      = Append(v.queued_events, Move("MouseRelative", Zero2))
                /\ s.self.cursor_accumulator = Zero2

\* The cursor is captured again with a delta left from the session before
\* and last_cursor away from the center.
C27_Witness ==
    /\ C27_WinitCase
    /\ last.pre.cursor_accumulator # Zero2
    /\ last.pre.last_cursor # center_of(os.inner_size)

\* C28: the event loop is in its slot before and after each poll_event,
\* wait_event and wait_event_timeout and out of it exactly while the pump of
\* the call runs; a call made while the slot is empty sends no WakeUp, pumps
\* nothing and only pops the queue, and the slot is filled again when the
\* outer call returns.
C28_TakeAndReplace ==
    /\ Winit /\ pc \in {"new", "idle"} => w.event_loop = "Some"
    /\ Winit /\ pc \in Pumping => w.event_loop = None
    /\ Winit /\ last.op = "pump_enter" => last.pre.event_loop = "Some"
    /\ Winit /\ last.op \in {"poll_event", "wait_event", "wait_event_timeout", "new"}
          /\ pc = "idle" =>
          /\ last.pre.event_loop = None
          /\ w.event_loop = "Some"
    /\ Winit /\ pc \in Pumping =>
          \A op \in {"poll_event", "wait_event", "wait_event_timeout"} :
             LET r == unpumped_call(State(w, os, <<>>), op)
             IN r.s.os = os /\ r.s.calls = <<>> /\ r.s.self.event_loop = None
    /\ Winit /\ last.op = "reentrant" =>
          /\ last.calls = <<>>
          /\ [os EXCEPT !.wake = last.pre_os.wake] = last.pre_os
          /\ pc \in Pumping
          /\ w.event_loop = None
          /\ w.events = IF last.pre.events = <<>> THEN <<>> ELSE Tail(last.pre.events)
          /\ last.ret = IF last.pre.events # <<>> THEN Head(last.pre.events)
                        ELSE IF last.arg = "wait_event" THEN Idle ELSE NoInput
          /\ [w EXCEPT !.events = last.pre.events,
                       !.should_close = last.pre.should_close] = last.pre

\* A call made during a pump has popped an event the pump had queued, with
\* the WakeUp of the outer call still to be handled.
C28_Witness ==
    /\ Winit
    /\ last.op = "reentrant"
    /\ last.ret.kind = "Focus"
    /\ os.wake = "sent"
    /\ w.event_loop = None

\* C29: a platform event of a category map_window_event has no input for
\* appends nothing to the queue and changes no field of the WinitWindow, and
\* the handler makes no call on the window for it.
C29_UnmappedIgnored ==
    Winit /\ last.op = "window_event" /\ last.arg \in UnmappedEvents =>
        /\ w = last.pre
        /\ last.calls = <<>>

\* A change of the scale factor has been handled by a window that is
\* closing, has the cursor captured with a delta accumulated, remembers a
\* pressed key and has an event queued.
C29_Witness ==
    /\ Winit /\ last.op = "window_event"
    /\ last.arg = ScaleFactorChanged(2)
    /\ os.scale_factor # last.pre_os.scale_factor
    /\ w.should_close
    /\ w.capture_cursor
    /\ w.cursor_accumulator # Zero2
    /\ w.last_key_pressed # None
    /\ w.events # <<>>

\* The key event handled last has reached map_keyboard_input: it was not
\* the Escape of exit_on_esc and not a flagged repeat with text.
KeyMapped ==
    /\ KeyHandled
    /\ ~(Final(trail.keys).event.text # None /\ Final(trail.keys).event.repeat)

\* C30: last_key_pressed holds at most one key, the key of the most recent
\* press appended if no release of that key has been handled since; a press
\* mapped to k is suppressed exactly when last_key_pressed is k; a release
\* clears last_key_pressed only when it is the release of that key and
\* always appends exactly one button release.
C30_OneKeyMarker ==
    /\ Winit /\ trail.kept =>
          w.last_key_pressed =
             IF trail.pressed # None /\ trail.pressed \in trail.held
             THEN trail.pressed ELSE None
    /\ KeyMapped =>
          LET entry == Final(trail.keys)
              key == map_key(entry.event.logical_key,
                             entry.pre.keyboard_ignore_modifiers)
          IN IF entry.event.state = "Pressed"
             THEN /\ entry.pre.last_key_pressed = key => KeyButtons(entry.out) = <<>>
                  /\ entry.pre.last_key_pressed # key =>
                        KeyButtons(entry.out) = <<Button("Press", "Keyboard", key)>>
                  /\ w.last_key_pressed = key
             ELSE /\ KeyButtons(entry.out) = <<Button("Release", "Keyboard", key)>>
                  /\ w.last_key_pressed =
                        IF entry.pre.last_key_pressed = key THEN None
                        ELSE entry.pre.last_key_pressed

\* The release of a key other than the one last pressed has been handled:
\* its button release is appended and last_key_pressed is kept.
C30_Witness ==
    /\ KeyMapped
    /\ Final(trail.keys).event.state = "Released"
    /\ Final(trail.keys).event.logical_key = Named("Escape")
    /\ Final(trail.keys).pre.last_key_pressed = "D2"
    /\ w.last_key_pressed = "D2"
    /\ Final(trail.keys).out = <<Button("Release", "Keyboard", "Escape")>>

\* What may have changed should_close since the last operation began:
\* set_should_close, the Escape key under exit_on_esc, a close request under
\* automatic_close, or a close event popped by a call or by new.
C31_Cause ==
    \/ /\ last.op = "set_should_close"
       /\ w.should_close = last.arg
    \/ /\ last.op = "window_event"
       /\ last.arg.type = "KeyboardInput"
       /\ last.arg.logical_key = Named("Escape")
       /\ last.pre.exit_on_esc
       /\ w.should_close
    \/ /\ last.op = "window_event"
       /\ last.arg.type = "CloseRequested"
       /\ last.pre.automatic_close
       /\ w.should_close
    \/ /\ last.op \in Pops
       /\ last.ret = Close
       /\ w.should_close
    \/ /\ last.op = "new"
       /\ last.pre.events # <<>>
       /\ Head(last.pre.events) = Close
       /\ w.should_close

\* C31: should_close of WinitWindow changes only through set_should_close,
\* an Escape key event under exit_on_esc, a close request under
\* automatic_close or the popping of a close event; every other event and
\* call leaves it as it was, and once true it stays true until
\* set_should_close(false).
C31_OnlyCloseCauses ==
    /\ Winit /\ w.should_close # last.pre.should_close => C31_Cause
    /\ Winit /\ last.pre.should_close /\ ~w.should_close =>
          last.op = "set_should_close" /\ ~last.arg
    /\ Winit /\ last.op \in {"swap_buffers", "set_capture_cursor", "set_exit_on_esc",
                              "set_automatic_close", "pump_enter", "resumed"} =>
          w.should_close = last.pre.should_close

\* A close request has been handled with automatic_close off, and has left
\* should_close false.
C31_Witness ==
    /\ Winit
    /\ last.op = "window_event"
    /\ last.arg.type = "CloseRequested"
    /\ ~last.pre.automatic_close
    /\ ~w.should_close
    /\ w.exit_on_esc

\* window_event has just handled a key event of the Escape key in a window
\* with exit_on_esc on.
C32_Case ==
    /\ Winit
    /\ last.op = "window_event"
    /\ last.arg.type = "KeyboardInput"
    /\ last.arg.logical_key = Named("Escape")
    /\ last.pre.exit_on_esc

\* C32: with exit_on_esc on, a key event of the Escape key, press or release,
\* with or without text, appends nothing to the queue, leaves
\* last_key_pressed and every other field as it was and sets should_close.
C32_EscapeSwallowed ==
    C32_Case =>
        /\ w.events = last.pre.events
        /\ w.last_key_pressed = last.pre.last_key_pressed
        /\ w.should_close
        /\ w = [last.pre EXCEPT !.should_close = TRUE]
        /\ last.calls = <<>>

\* The release of the Escape key is swallowed while last_key_pressed holds
\* the Escape key, pressed before exit_on_esc was switched on.
C32_Witness ==
    /\ C32_Case
    /\ last.arg.state = "Released"
    /\ last.pre.last_key_pressed = "Escape"
    /\ ~last.pre.should_close
    /\ w.should_close

\* C33: after set_size((w, h)), honoured by the platform, size() is (w, h),
\* in WinitWindow and in VulkanoWindow, at every scale factor.
C33_SizeRoundTrip ==
    /\ Winit /\ last.op = "set_size" =>
          Window_size(State(w, os, <<>>)) = last.arg
    /\ Vulkano /\ vlast.op = "set_size" =>
          Window_size(State(v, vos, <<>>)) = vlast.arg

\* The delta of a move from a to b with both in the same units: physical
\* pixels, or logical units at the scale factor.
SameUnits(a, b, scale_factor) ==
    {Sub2(b, a), Sub2(to_logical(b, scale_factor), to_logical(a, scale_factor))}

\* window_event has just handled a captured move away from the center that
\* follows another move of the same frame.
C34_WinitCase ==
    /\ C4_Case
    /\ last.arg.position # center_of(os.inner_size)
    /\ Len(frame.moves) >= 2

\* poll_event of VulkanoWindow has just handled two captured moves away from
\* the center.
C34_VulkanoCase ==
    /\ Vulkano
    /\ vlast.op = "poll_event"
    /\ vlast.pre.capture_cursor
    /\ Len(vlast.arg) = 2
    /\ \A i \in 1..2 :
          /\ vlast.arg[i].event.type = "CursorMoved"
          /\ vlast.arg[i].event.position # center_of(vos.inner_size)

\* C34: while captured, a move away from the center, from the position a of
\* the move before it to the position b, adds b - a to cursor_accumulator,
\* with a and b in the same units, at every scale factor.
C34_UnitConsistent ==
    /\ C34_WinitCase =>
          Sub2(w.cursor_accumulator, last.pre.cursor_accumulator)
             \in SameUnits(frame.moves[Len(frame.moves) - 1].position,
                           last.arg.position, os.scale_factor)
    /\ C34_VulkanoCase =>
          LET a == vlast.arg[1].event.position
              b == vlast.arg[2].event.position
              first == Sub2(a, vlast.pre.last_cursor)
          IN Sub2(Sub2(v.cursor_accumulator, vlast.pre.cursor_accumulator), first)
                \in SameUnits(a, b, vos.scale_factor)

====
